---------------------------- MODULE Spec2Model ----------------------------
(***************************************************************************)
(* TasteStack: the recipe store, its ownership rule and the interaction    *)
(* tables (ratings, likes, comments, follows) behind the REST API.         *)
(*                                                                         *)
(* The store is the relational database; each action is one HTTP request   *)
(* handled to completion (the views are synchronous).  The variable resp   *)
(* holds the last request and the response it got, so that what a caller   *)
(* was told can be compared with what the store holds.                     *)
(***************************************************************************)
EXTENDS Integers, Sequences, FiniteSets, Bags, TLC

(***************************************************************************)
(* Bounds of the model.                                                    *)
(***************************************************************************)
MaxUsers == 2      \* registered identities
MaxRecipes == 2    \* recipes ever created (primary keys 1..MaxRecipes)
MaxRows == 2       \* rows an interaction table (ratings, likes, follows) holds
MaxComments == 2   \* comments ever created (primary keys 1..MaxComments)

(***************************************************************************)
(* Program constants.                                                      *)
(***************************************************************************)
HTTP_200_OK == 200
HTTP_201_CREATED == 201
HTTP_204_NO_CONTENT == 204
HTTP_400_BAD_REQUEST == 400
HTTP_401_UNAUTHORIZED == 401
HTTP_403_FORBIDDEN == 403
HTTP_404_NOT_FOUND == 404
HTTP_500_INTERNAL_SERVER_ERROR == 500
PAGE_SIZE == 12
min_length == 8
MinTitle == 3
DayMinutes == 1440
MinRating == 1
MaxRating == 5

\* request.user when the request carries no credential
AnonymousUser == 0

UserIds == 1..MaxUsers
RecipeIds == 1..MaxRecipes
CommentIds == 1..MaxComments

\* What a request carries: the token of identity u, or no Authorization header.
NoCredential == AnonymousUser
Credentials == UserIds \cup {NoCredential}

\* Values of the editable recipe field the model follows.
Titles == {"Pasta", "Soup"}
\* Comment texts.
Contents == {"Great recipe!"}
\* Python's None, for an optional value: <<>> is None, <<v>> is v.
None == <<>>
Some(v) == <<v>>

VARIABLES
    users,          \* ids of the identities in the User table
    accounts,       \* the User table: id -> [username, email, password]
    nextUserId,     \* the table's autoincrement
    recipes,        \* the Item/Recipe table: pk -> [author, title]
    nextRecipeId,   \* the table's autoincrement
    ratings,        \* the Rating table: a bag of [user, item, rating]
    likes,          \* the Like table: a bag of [user, item]
    comments,       \* the Comment table: pk -> [user, item, content, hidden]
    nextCommentId,  \* the table's autoincrement
    follows,        \* the Follow table: a bag of [follower, following]
    resp,           \* the last request and its response
    calls,          \* the requests that run at the same time, each with the
                    \* step it has reached and what it has read
    media,          \* the names of the files in the media storage
    streak          \* the run of like/unlike (or follow/unfollow) requests one
                    \* caller has made on one target, and the table before it

store == <<users, accounts, nextUserId, recipes, nextRecipeId, ratings, likes, comments, nextCommentId, follows>>
vars == <<users, accounts, nextUserId, recipes, nextRecipeId, ratings, likes, comments, nextCommentId, follows, resp, calls, media, streak>>

(***************************************************************************)
(* Table helpers.                                                          *)
(***************************************************************************)
RECURSIVE CopiesSum(_, _)
\* Number of rows of table B among the distinct rows S.
CopiesSum(B, S) ==
    IF S = {} THEN 0
    ELSE LET r == CHOOSE x \in S : TRUE
         IN  CopiesIn(r, B) + CopiesSum(B, S \ {r})

RECURSIVE RatingSum(_, _)
\* sum(rating.rating for rating in ratings) over the rows S of table B.
RatingSum(B, S) ==
    IF S = {} THEN 0
    ELSE LET r == CHOOSE x \in S : TRUE
         IN  r.rating * CopiesIn(r, B) + RatingSum(B, S \ {r})

\* One row added to / removed from a table.
Insert(B, row) == B (+) SetToBag({row})
Delete(B, row) == B (-) SetToBag({row})

RECURSIVE Gcd(_, _)
Gcd(a, b) == IF b = 0 THEN a ELSE Gcd(b, a % b)

\* Python's true division n / d of non-negative integers, as the rational
\* in lowest terms <<numerator, denominator>>.
TrueDiv(n, d) == LET g == Gcd(n, d) IN <<n \div g, d \div g>>
\* Python's floor division n // d.
FloorDiv(n, d) == <<n \div d, 1>>
Zero == <<0, 1>>

(***************************************************************************)
(* Authentication: JWTAuthentication resolves the credential.  No header   *)
(* gives AnonymousUser; a token whose identity is not in the User table    *)
(* fails authentication (401) before any view code runs.                   *)
(***************************************************************************)
JWTAuthentication(cred) ==
    IF cred = NoCredential THEN [ok |-> TRUE, user |-> AnonymousUser]
    ELSE IF cred \in users THEN [ok |-> TRUE, user |-> cred]
    ELSE [ok |-> FALSE, user |-> AnonymousUser]

is_authenticated(user) == user # AnonymousUser

\* permission_classes = [IsAuthenticated]
IsAuthenticated(user) == is_authenticated(user)
\* permission_classes = [AllowAny]
AllowAny(user) == TRUE

(***************************************************************************)
(* Item (recipe) model properties and serializer.                          *)
(***************************************************************************)
RatingsOf(rt, pk) == {r \in BagToSet(rt) : r.item = pk}
LikesOf(lk, pk) == {l \in BagToSet(lk) : l.item = pk}

average_rating_floor(rt, pk) ==
    LET rows == RatingsOf(rt, pk)
    IN  IF rows # {} THEN FloorDiv(RatingSum(rt, rows), CopiesSum(rt, rows)) ELSE Zero

\* Item.average_rating
average_rating(rt, pk) ==
    LET rows == RatingsOf(rt, pk)
    IN  IF rows # {} THEN TrueDiv(RatingSum(rt, rows), CopiesSum(rt, rows)) ELSE Zero

likes_count_all(lk, pk) == BagCardinality(lk)

\* Item.likes_count
likes_count(lk, pk) == CopiesSum(lk, LikesOf(lk, pk))

\* ItemSerializer.get_is_liked
get_is_liked(lk, pk, user) ==
    IF is_authenticated(user)
    THEN \E l \in BagToSet(lk) : l.user = user /\ l.item = pk
    ELSE FALSE

\* A user_rating taken from any rating of the recipe, whoever gave it.
get_user_rating_Any(rt, pk, user) ==
    IF is_authenticated(user)
    THEN LET all == {r \in BagToSet(rt) : r.item = pk}
         IN  IF all # {} THEN Some((CHOOSE r \in all : TRUE).rating) ELSE None
    ELSE None

\* ItemSerializer.get_user_rating
get_user_rating(rt, pk, user) ==
    IF is_authenticated(user)
    THEN LET mine == {r \in BagToSet(rt) : r.user = user /\ r.item = pk}
         IN  IF mine # {} THEN Some((CHOOSE r \in mine : TRUE).rating) ELSE None
    ELSE None

\* ItemSerializer(item, context={'request': request}).data, read from the
\* tables rc, rt, lk as they are when the response is built.
ItemSerializer(rc, rt, lk, pk, user) ==
    [id |-> pk,
     title |-> rc[pk].title,
     author |-> rc[pk].author,
     average_rating |-> average_rating(rt, pk),
     likes_count |-> likes_count(lk, pk),
     is_liked |-> get_is_liked(lk, pk, user),
     user_rating |-> get_user_rating(rt, pk, user)]

NoData == [detail |-> "none"]
\* A request (operation, credential, target, body) and the response to it.
Response(op, cred, pk, arg, status, data) ==
    [op |-> op, cred |-> cred, pk |-> pk, arg |-> arg, status |-> status, data |-> data]

\* The history of the rate, like or follow requests: the successful requests
\* one caller has made on one target, oldest first; whether the caller had a
\* row for the target before them, and (for follows) the table before them.
NoStreak == [kind |-> "none", cred |-> NoCredential, pk |-> 0, ops |-> <<>>,
             had |-> FALSE, start |-> EmptyBag]
StreakLen == 3
MaxListed == 25

(***************************************************************************)
(* Initial state: the identities are registered, every other table empty.  *)
(***************************************************************************)
\* A text of n characters ch.
Text(ch, n) == [i \in 1..n |-> ch]

\* The e-mail address and the user name of the n-th person.
Email(n) == <<"user", n, "@example.com">>
Username(n) == <<"user", n>>

\* A stored password that is the raw one.
set_password_Plain(raw) == raw

\* user.set_password(raw): the hash that is stored, never the raw password.
set_password(raw) == <<"pbkdf2_sha256$">> \o raw

\* user.check_password(raw)
check_password(raw, encoded) == encoded = set_password(raw)

\* The accounts of the identities that exist at the start.
Registered(u) == [username |-> Username(u), email |-> Email(u),
                  password |-> set_password(Text("p", min_length))]

Init ==
    /\ users = UserIds
    /\ accounts = [u \in UserIds |-> Registered(u)]
    /\ nextUserId = MaxUsers + 1
    /\ recipes = <<>>
    /\ nextRecipeId = 1
    /\ ratings = EmptyBag
    /\ likes = EmptyBag
    /\ comments = <<>>
    /\ nextCommentId = 1
    /\ follows = EmptyBag
    /\ resp = Response("none", NoCredential, 0, None, HTTP_200_OK, NoData)
    /\ calls = <<>>
    /\ media = {}
    /\ streak = NoStreak


(***************************************************************************)
(* on_delete=CASCADE: the rows that go with a recipe or an identity.       *)
(***************************************************************************)
RECURSIVE RemoveRows(_, _)
\* Table B without any copy of the rows S.
RemoveRows(B, S) ==
    IF S = {} THEN B
    ELSE LET r == CHOOSE x \in S : TRUE
         IN  RemoveRows(B (-) [x \in {r} |-> CopiesIn(r, B)], S \ {r})

Without(f, S) == [k \in DOMAIN f \ S |-> f[k]]

\* A deletion of recipes that leaves their likes behind.
CascadeRecipes_KeepLikes(gone) ==
    /\ recipes' = Without(recipes, gone)
    /\ ratings' = RemoveRows(ratings, {r \in BagToSet(ratings) : r.item \in gone})
    /\ likes' = likes
    /\ comments' = Without(comments, {k \in DOMAIN comments : comments[k].item \in gone})

\* The store after recipes gone (a set of primary keys) are deleted.
CascadeRecipes(gone) ==
    /\ recipes' = Without(recipes, gone)
    /\ ratings' = RemoveRows(ratings, {r \in BagToSet(ratings) : r.item \in gone})
    /\ likes' = RemoveRows(likes, {l \in BagToSet(likes) : l.item \in gone})
    /\ comments' = Without(comments, {k \in DOMAIN comments : comments[k].item \in gone})

(***************************************************************************)
(* Recipe views.                                                           *)
(***************************************************************************)
\* obj.author == request.user
IsOwner_Anyone(instance, user) == is_authenticated(user)

IsOwner(instance, user) == instance.author = user

\* Every field of the payload taken as it is.
validated_data_All(data) == data

\* serializer.validated_data: the payload without the fields the serializer
\* does not write (Meta.read_only_fields, and author, which is not among the
\* fields of ItemCreateSerializer).
read_only_fields == {"id", "author", "created_at", "updated_at"}
validated_data(data) == [f \in DOMAIN data \ read_only_fields |-> data[f]]

\* ItemListCreateView, POST: get_permissions gives IsAuthenticated;
\* ItemCreateSerializer.create stores the item with author = request.user.
\* data holds the title, the description, the difficulty, and the recipe's
\* ingredients and two times.
ItemListCreateView_post(cred, data) ==
    LET auth == JWTAuthentication(cred)
        ok == auth.ok /\ IsAuthenticated(auth.user)
        pk == nextRecipeId
    IN  /\ nextRecipeId <= MaxRecipes
        /\ recipes' = IF ok
                      THEN recipes @@ (pk :> (validated_data(data) @@ [author |-> auth.user]))
                      ELSE recipes
        /\ nextRecipeId' = IF ok THEN nextRecipeId + 1 ELSE nextRecipeId
        /\ resp' = IF ok
                   THEN Response("create", cred, pk, Some(data.title), HTTP_201_CREATED,
                                 [title |-> data.title])
                   ELSE Response("create", cred, 0, Some(data.title), HTTP_401_UNAUTHORIZED, NoData)
        /\ UNCHANGED <<users, accounts, nextUserId, ratings, likes, comments, nextCommentId, follows>>

\* The same request for an easy recipe of 10 minutes of preparation and 20
\* of cooking.
ItemListCreateView_create(cred, title) ==
    ItemListCreateView_post(cred, [title |-> title, description |-> "Tasty",
                                   difficulty |-> "Easy", ingredients |-> <<"eggs">>,
                                   prep_time |-> 10, cook_time |-> 20])

\* The author comparison made on whatever the primary key names, so that a
\* missing item is refused like another's.
ItemDetailView_check_OwnerFirst(cred, pk, success) ==
    LET auth == JWTAuthentication(cred)
    IN  IF ~auth.ok THEN HTTP_401_UNAUTHORIZED
        ELSE IF pk \notin DOMAIN recipes THEN HTTP_403_FORBIDDEN
        ELSE IF ~IsOwner(recipes[pk], auth.user) THEN HTTP_403_FORBIDDEN
        ELSE success

\* The status ItemDetailView.update and .destroy answer before they write:
\* authentication, then get_object (404), then the author comparison (403).
ItemDetailView_check(cred, pk, success) ==
    LET auth == JWTAuthentication(cred)
    IN  IF ~auth.ok THEN HTTP_401_UNAUTHORIZED
        ELSE IF ~AllowAny(auth.user) THEN HTTP_401_UNAUTHORIZED
        ELSE IF pk \notin DOMAIN recipes THEN HTTP_404_NOT_FOUND
        ELSE IF ~IsOwner(recipes[pk], auth.user) THEN HTTP_403_FORBIDDEN
        ELSE success

\* ItemDetailView.update (PUT/PATCH /api/recipes/{pk}/)
ItemDetailView_update(cred, pk, title) ==
    LET status == ItemDetailView_check(cred, pk, HTTP_200_OK)
    IN  /\ recipes' = IF status = HTTP_200_OK
                      THEN [recipes EXCEPT ![pk].title = title]
                      ELSE recipes
        /\ resp' = Response("update", cred, pk, Some(title), status,
                            IF status = HTTP_200_OK
                            THEN ItemSerializer(recipes', ratings, likes, pk, cred)
                            ELSE NoData)
        /\ UNCHANGED <<users, accounts, nextUserId, nextRecipeId, ratings, likes, comments, nextCommentId, follows>>

\* ItemDetailView.update with any payload: the fields ItemSerializer writes
\* are set on the item, the others are ignored.
ItemDetailView_put(cred, pk, data) ==
    LET status == ItemDetailView_check(cred, pk, HTTP_200_OK)
    IN  /\ recipes' = IF status = HTTP_200_OK
                      THEN [recipes EXCEPT ![pk] = validated_data(data) @@ @]
                      ELSE recipes
        /\ resp' = Response("update", cred, pk, Some(data), status,
                            IF status = HTTP_200_OK
                            THEN ItemSerializer(recipes', ratings, likes, pk, cred)
                            ELSE NoData)
        /\ UNCHANGED <<users, accounts, nextUserId, nextRecipeId, ratings, likes, comments, nextCommentId, follows>>

\* What goes wrong in a save: nothing, the write of the file to the
\* storage, or the write of the row to the database.
Failures == {"none", "blob", "record"}

\* ItemListCreateView, POST with an image: Item.objects.create() calls
\* Item.save(), which has no old item to look at and goes to super().save():
\* the file is written, then the row is inserted.
ItemListCreateView_post_image(cred, title, image, failure) ==
    LET auth == JWTAuthentication(cred)
        pk == nextRecipeId
        status == IF ~auth.ok \/ ~IsAuthenticated(auth.user) THEN HTTP_401_UNAUTHORIZED
                  ELSE IF failure # "none" THEN HTTP_500_INTERNAL_SERVER_ERROR
                  ELSE HTTP_201_CREATED
        row == [author |-> auth.user, title |-> title, description |-> "Tasty",
                difficulty |-> "Easy", image |-> Some(image)]
    IN  /\ nextRecipeId <= MaxRecipes
        /\ media' = IF status = HTTP_401_UNAUTHORIZED \/ failure = "blob" THEN media
                    ELSE media \cup {image}
        /\ recipes' = IF status = HTTP_201_CREATED THEN recipes @@ (pk :> row) ELSE recipes
        /\ nextRecipeId' = IF status = HTTP_201_CREATED THEN pk + 1 ELSE pk
        /\ resp' = Response("create_image", cred, IF status = HTTP_201_CREATED THEN pk ELSE 0,
                            Some(image), status, NoData)
        /\ UNCHANGED <<users, accounts, nextUserId, ratings, likes, comments, nextCommentId, follows>>

\* ItemDetailView.update with a new image, through Item.save(): the old
\* item's image is deleted from the storage when it differs from the new
\* one, and then super().save() writes the new file and updates the row.
ItemDetailView_put_image(cred, pk, image, failure) ==
    LET status == ItemDetailView_check(cred, pk, HTTP_200_OK)
        saving == status = HTTP_200_OK
        old == IF saving /\ recipes[pk].image # None /\ recipes[pk].image # Some(image)
               THEN {recipes[pk].image[1]} ELSE {}
    IN  /\ media' = IF ~saving THEN media
                    ELSE IF failure = "blob" THEN media \ old
                    ELSE (media \ old) \cup {image}
        /\ recipes' = IF saving /\ failure = "none"
                      THEN [recipes EXCEPT ![pk].image = Some(image)]
                      ELSE recipes
        /\ resp' = Response("update_image", cred, pk, Some(image),
                            IF saving /\ failure # "none" THEN HTTP_500_INTERNAL_SERVER_ERROR
                            ELSE status, NoData)
        /\ UNCHANGED <<users, accounts, nextUserId, nextRecipeId, ratings, likes, comments, nextCommentId, follows>>

\* ItemDetailView.destroy (DELETE /api/recipes/{pk}/); instance.delete()
\* takes the recipe's ratings, likes and comments with it.
ItemDetailView_destroy(cred, pk) ==
    LET status == ItemDetailView_check(cred, pk, HTTP_204_NO_CONTENT)
    IN  /\ CascadeRecipes(IF status = HTTP_204_NO_CONTENT THEN {pk} ELSE {})
        /\ resp' = Response("destroy", cred, pk, None, status, NoData)
        /\ UNCHANGED <<users, accounts, nextUserId, nextRecipeId, nextCommentId, follows>>

\* ItemDetailView.retrieve (GET /api/recipes/{pk}/), open to anyone.
ItemDetailView_retrieve(cred, pk) ==
    LET auth == JWTAuthentication(cred)
        status == IF ~auth.ok THEN HTTP_401_UNAUTHORIZED
                  ELSE IF pk \notin DOMAIN recipes THEN HTTP_404_NOT_FOUND
                  ELSE HTTP_200_OK
    IN  /\ resp' = Response("retrieve", cred, pk, None, status,
                            IF status = HTTP_200_OK
                            THEN ItemSerializer(recipes, ratings, likes, pk, auth.user)
                            ELSE NoData)
        /\ UNCHANGED store

\* ItemListCreateView, GET (/api/recipes/): every recipe, serialized.
ItemListCreateView_list(cred) ==
    LET auth == JWTAuthentication(cred)
    IN  /\ resp' = IF auth.ok
                   THEN Response("list", cred, 0, None, HTTP_200_OK,
                                 [results |-> {ItemSerializer(recipes, ratings, likes, pk, auth.user) :
                                                  pk \in DOMAIN recipes},
                                  count |-> Cardinality(DOMAIN recipes)])
                   ELSE Response("list", cred, 0, None, HTTP_401_UNAUTHORIZED, NoData)
        /\ UNCHANGED store

\* The lower-case form of a text, and the texts it contains, for the titles
\* and the search words in use.
Lower(text) ==
    CASE text \in {"Pasta", "PASTA", "pasta"} -> "pasta"
      [] text \in {"Soup", "SOUP", "soup"} -> "soup"
      [] text \in {"Ou", "OU", "ou"} -> "ou"
      [] OTHER -> text

Infixes(text) ==
    CASE text = "pasta" -> {"pasta"}
      [] text = "soup" -> {"soup", "ou"}
      [] OTHER -> {text}

\* title__icontains=search
icontains(text, search) == Lower(search) \in Infixes(Lower(text))

\* ItemListCreateView.get_queryset: the items that match the query
\* parameters q (in the title or in the description) and difficulty; no
\* other parameter is read.
get_queryset(rc, params) ==
    {pk \in DOMAIN rc :
        /\ params.q # None => \/ icontains(rc[pk].title, params.q[1])
                              \/ icontains(rc[pk].description, params.q[1])
        /\ params.difficulty # None => rc[pk].difficulty = params.difficulty[1]}

\* PageNumberPagination with PAGE_SIZE: the number of pages of n items (one,
\* empty, page when there is none) and the positions page number holds.
num_pages(n) == IF n = 0 THEN 1 ELSE (n + PAGE_SIZE - 1) \div PAGE_SIZE
PagePositions(n, number) ==
    {i \in 1..n : (number - 1) * PAGE_SIZE < i /\ i <= number * PAGE_SIZE}

\* ItemListCreateView, GET with query parameters: the page asked for of the
\* matching items, in the order the database returns them.  The queryset
\* has no order_by and Item no Meta.ordering, so order (a sequence of the
\* stored primary keys) is the database's choice.
ItemListCreateView_get(cred, params, order) ==
    LET auth == JWTAuthentication(cred)
        qs == get_queryset(recipes, params)
        rows == SelectSeq(order, LAMBDA pk : pk \in qs)
        n == Len(rows)
        number == IF params.page = None THEN 1 ELSE params.page[1]
        status == IF ~auth.ok THEN HTTP_401_UNAUTHORIZED
                  ELSE IF number < 1 \/ number > num_pages(n) THEN HTTP_404_NOT_FOUND
                  ELSE HTTP_200_OK
        at == PagePositions(n, number)
        first == (number - 1) * PAGE_SIZE
    IN  /\ resp' = Response("query", cred, 0, Some(params), status,
                            IF status = HTTP_200_OK
                            THEN [count |-> n,
                                  next |-> IF number < num_pages(n) THEN Some(number + 1) ELSE None,
                                  previous |-> IF number > 1 THEN Some(number - 1) ELSE None,
                                  results |-> [i \in 1..Cardinality(at) |->
                                      ItemSerializer(recipes, ratings, likes, rows[first + i], auth.user)]]
                            ELSE NoData)
        /\ UNCHANGED store

\* An identity is deleted (Django admin, or user.delete()): its recipes go
\* with it, and so do the ratings, likes, comments and follows that name it.
DeleteUser(u) ==
    LET gone == {pk \in DOMAIN recipes : recipes[pk].author = u}
    IN  /\ u \in users
        /\ users' = users \ {u}
        /\ accounts' = [k \in DOMAIN accounts \ {u} |-> accounts[k]]
        /\ recipes' = Without(recipes, gone)
        /\ ratings' = RemoveRows(ratings, {r \in BagToSet(ratings) : r.item \in gone \/ r.user = u})
        /\ likes' = RemoveRows(likes, {l \in BagToSet(likes) : l.item \in gone \/ l.user = u})
        /\ comments' = Without(comments, {k \in DOMAIN comments :
                                            comments[k].item \in gone \/ comments[k].user = u})
        /\ follows' = RemoveRows(follows, {f \in BagToSet(follows) : f.follower = u \/ f.following = u})
        /\ resp' = Response("delete_user", NoCredential, u, None, HTTP_204_NO_CONTENT, NoData)
        /\ UNCHANGED <<nextUserId, nextRecipeId, nextCommentId>>

(***************************************************************************)
(* Recipes created through RecipeSerializer.                               *)
(***************************************************************************)
\* str.strip() and str.lower() on a text held as a sequence of characters.
RECURSIVE strip(_)
strip(text) ==
    IF text = <<>> THEN text
    ELSE IF Head(text) = " " THEN strip(Tail(text))
    ELSE IF text[Len(text)] = " " THEN strip(SubSeq(text, 1, Len(text) - 1))
    ELSE text
LowerChar(ch) ==
    CASE ch = "A" -> "a"
      [] ch = "B" -> "b"
      [] ch = "C" -> "c"
      [] OTHER -> ch
lower(text) == [i \in DOMAIN text |-> LowerChar(text[i])]
\* part in text
contains(text, part) ==
    \E i \in 0..(Len(text) - Len(part)) : SubSeq(text, i + 1, i + Len(part)) = part

\* RecipeSerializer.is_valid(): the CharField trims the title and refuses a
\* blank one, then validate_title, validate_prep_time, the non-negative
\* cook_time of the PositiveIntegerField, and validate().
RecipeSerializerValid(data) ==
    /\ strip(data.title) # <<>>
    /\ ~(Len(strip(data.title)) < MinTitle)
    /\ ~(data.prep_time <= 0)
    /\ ~(data.prep_time > DayMinutes)
    /\ data.cook_time >= 0
    /\ ~contains(lower(strip(data.description)), lower(strip(data.title)))

\* Recipe.save(): full_clean() refuses an empty value of a field that is not
\* blank=True, then clean().
full_clean(row) ==
    /\ row.ingredients # <<>>
    /\ row.instructions # <<>>
    /\ ~(row.prep_time # 0 /\ row.prep_time > DayMinutes)
    /\ ~(row.title # <<>> /\ Len(strip(row.title)) < MinTitle)

\* RecipeViewSet, POST: the recipe of the validated data with author =
\* request.user.  What the serializer refuses is answered 400; what only
\* Recipe.save() refuses is raised as django's ValidationError, which the
\* framework does not turn into a response of its own.
RecipeViewSet_create(cred, data) ==
    LET auth == JWTAuthentication(cred)
        pk == nextRecipeId
        row == [data EXCEPT !.title = strip(data.title), !.description = strip(data.description)]
                   @@ [author |-> auth.user]
        status == IF ~auth.ok \/ ~IsAuthenticated(auth.user) THEN HTTP_401_UNAUTHORIZED
                  ELSE IF ~RecipeSerializerValid(data) THEN HTTP_400_BAD_REQUEST
                  ELSE IF ~full_clean(row) THEN HTTP_500_INTERNAL_SERVER_ERROR
                  ELSE HTTP_201_CREATED
    IN  /\ nextRecipeId <= MaxRecipes
        /\ recipes' = IF status = HTTP_201_CREATED THEN recipes @@ (pk :> row) ELSE recipes
        /\ nextRecipeId' = IF status = HTTP_201_CREATED THEN pk + 1 ELSE pk
        /\ resp' = Response("create_recipe", cred, IF status = HTTP_201_CREATED THEN pk ELSE 0,
                            Some(data), status,
                            IF status = HTTP_201_CREATED THEN [id |-> pk] @@ row ELSE NoData)
        /\ UNCHANGED <<users, accounts, nextUserId, ratings, likes, comments, nextCommentId, follows>>

(***************************************************************************)
(* Requests that run at the same time.  A request is two steps on the      *)
(* database, the SELECT that looks for the row and the write that follows  *)
(* from what the SELECT found; the steps of two requests interleave.       *)
(***************************************************************************)
Call(op, cred, pk, arg) ==
    [op |-> op, cred |-> cred, pk |-> pk, arg |-> arg, pc |-> "get", found |-> FALSE,
     status |-> HTTP_200_OK]

Running == {i \in DOMAIN calls : calls[i].pc # "done"}

\* Two requests of one caller on one target arrive together.
Arrive(op, cred, pk, args) ==
    /\ Running = {}
    /\ calls' = <<Call(op, cred, pk, args[1]), Call(op, cred, pk, args[2])>>
    /\ UNCHANGED <<store, resp>>

\* The first step of a request on a recipe: get_object_or_404, then the
\* SELECT of get_or_create for the row of (user, recipe) in table.
FindRow(i, table) ==
    LET c == calls[i]
    IN  /\ c.pc = "get"
        /\ IF c.pk \notin DOMAIN recipes
           THEN /\ calls' = [calls EXCEPT ![i].pc = "done", ![i].status = HTTP_404_NOT_FOUND]
                /\ resp' = Response(c.op, c.cred, c.pk, c.arg, HTTP_404_NOT_FOUND, NoData)
           ELSE /\ calls' = [calls EXCEPT ![i].pc = "write",
                                          ![i].found = \E x \in BagToSet(table) :
                                                           x.user = c.cred /\ x.item = c.pk]
                /\ UNCHANGED resp
        /\ UNCHANGED store

\* What get_or_create answers as created once the SELECT found or did not
\* find the row: the row is created when the SELECT did not find it and
\* the INSERT passes unique_together; an INSERT that fails on it raises
\* IntegrityError, which get_or_create catches to get the row that is there.
Created(found, table, user, pk) ==
    ~found /\ ~\E x \in BagToSet(table) : x.user = user /\ x.item = pk

\* rate_recipe, second step: the row is created with the score, or the row
\* that is there gets the score and is saved.
rate_recipe_write(i) ==
    LET c == calls[i]
        mine == {x \in BagToSet(ratings) : x.user = c.cred /\ x.item = c.pk}
    IN  /\ c.op = "rate_recipe"
        /\ c.pc = "write"
        /\ ratings' = IF Created(c.found, ratings, c.cred, c.pk)
                      THEN Insert(ratings, [user |-> c.cred, item |-> c.pk, rating |-> c.arg[1]])
                      ELSE LET old == CHOOSE x \in mine : TRUE
                           IN  Insert(Delete(ratings, old), [old EXCEPT !.rating = c.arg[1]])
        /\ calls' = [calls EXCEPT ![i].pc = "done", ![i].status = HTTP_200_OK]
        /\ resp' = Response(c.op, c.cred, c.pk, c.arg, HTTP_200_OK,
                            [success |-> TRUE, average |-> average_rating(ratings', c.pk)])
        /\ UNCHANGED <<users, accounts, nextUserId, recipes, nextRecipeId, likes, comments, nextCommentId, follows>>

\* like_recipe, second step: the like is created, or the like that is there
\* is deleted (like.delete() of a row already gone deletes nothing).
like_recipe_write(i) ==
    LET c == calls[i]
        made == Created(c.found, likes, c.cred, c.pk)
    IN  /\ c.op = "like"
        /\ c.pc = "write"
        /\ likes' = IF made THEN Insert(likes, [user |-> c.cred, item |-> c.pk])
                    ELSE RemoveRows(likes, {[user |-> c.cred, item |-> c.pk]})
        /\ calls' = [calls EXCEPT ![i].pc = "done", ![i].status = HTTP_200_OK]
        /\ resp' = Response(c.op, c.cred, c.pk, c.arg, HTTP_200_OK, [liked |-> made])
        /\ UNCHANGED <<users, accounts, nextUserId, recipes, nextRecipeId, ratings, comments, nextCommentId, follows>>

(***************************************************************************)
(* Accounts.                                                               *)
(***************************************************************************)
\* str(RefreshToken.for_user(user).access_token)
access_token(id) == <<"access", id>>

\* UserSerializer(user).data: password is write_only and is not given out.
UserSerializer(acc, id) ==
    [id |-> id, username |-> acc[id].username, email |-> acc[id].email]

\* UserRegistrationSerializer.is_valid(): the unique e-mail and user name of
\* the User model, min_length of the password, and validate().
RegistrationValid(acc, data) ==
    /\ \A u \in DOMAIN acc : acc[u].email # data.email
    /\ \A u \in DOMAIN acc : acc[u].username # data.username
    /\ Len(data.password) >= min_length
    /\ data.password = data.password_confirm

\* register (POST /api/auth/register/), open to anyone: creates the user
\* with a hashed password and answers the user and a token for it.
register(data) ==
    LET id == nextUserId
        ok == RegistrationValid(accounts, data)
    IN  /\ nextUserId <= MaxUsers
        /\ accounts' = IF ok
                       THEN accounts @@ (id :> [username |-> data.username, email |-> data.email,
                                                password |-> set_password(data.password)])
                       ELSE accounts
        /\ users' = IF ok THEN users \cup {id} ELSE users
        /\ nextUserId' = IF ok THEN id + 1 ELSE id
        /\ resp' = IF ok
                   THEN Response("register", NoCredential, id, Some(data), HTTP_201_CREATED,
                                 [user |-> UserSerializer(accounts', id), token |-> access_token(id)])
                   ELSE Response("register", NoCredential, 0, Some(data), HTTP_400_BAD_REQUEST,
                                 [error |-> "invalid"])
        /\ UNCHANGED <<recipes, nextRecipeId, ratings, likes, comments, nextCommentId, follows>>

\* login (POST /api/auth/login/), open to anyone.  email and password are
\* None when the request does not give them.
login(email, password) ==
    LET found == {u \in DOMAIN accounts : email # None /\ accounts[u].email = email[1]}
        data == [email |-> email, password |-> password]
    IN  /\ resp' =
             IF email # None /\ password # None
             THEN IF found = {}
                  THEN Response("login", NoCredential, 0, Some(data), HTTP_400_BAD_REQUEST,
                                [error |-> "Invalid credentials"])
                  ELSE LET user == CHOOSE u \in found : TRUE
                       IN  IF check_password(password[1], accounts[user].password)
                           THEN Response("login", NoCredential, user, Some(data), HTTP_200_OK,
                                         [user |-> UserSerializer(accounts, user), token |-> access_token(user)])
                           ELSE Response("login", NoCredential, 0, Some(data), HTTP_400_BAD_REQUEST,
                                         [error |-> "Invalid credentials"])
             ELSE Response("login", NoCredential, 0, Some(data), HTTP_400_BAD_REQUEST,
                           [error |-> "Email and password are required"])
        /\ UNCHANGED store

\* register, first step: serializer.is_valid(), whose unique validators
\* SELECT the e-mail and the user name; a request that is refused is
\* answered here.
register_is_valid(i) ==
    LET c == calls[i]
        ok == RegistrationValid(accounts, c.arg[1])
    IN  /\ c.op = "register"
        /\ c.pc = "get"
        /\ calls' = IF ok THEN [calls EXCEPT ![i].pc = "write"]
                    ELSE [calls EXCEPT ![i].pc = "done", ![i].status = HTTP_400_BAD_REQUEST]
        /\ resp' = IF ok THEN resp
                   ELSE Response("register", NoCredential, 0, c.arg, HTTP_400_BAD_REQUEST,
                                 [error |-> "invalid"])
        /\ UNCHANGED store

\* register, second step: serializer.save().  User.objects.create() raises
\* IntegrityError when the e-mail or the user name has been taken since the
\* validation; the view does not catch it.
register_save(i) ==
    LET c == calls[i]
        data == c.arg[1]
        id == nextUserId
        taken == \E u \in DOMAIN accounts :
                     accounts[u].email = data.email \/ accounts[u].username = data.username
    IN  /\ c.op = "register"
        /\ c.pc = "write"
        /\ accounts' = IF taken THEN accounts
                       ELSE accounts @@ (id :> [username |-> data.username, email |-> data.email,
                                                password |-> set_password(data.password)])
        /\ users' = IF taken THEN users ELSE users \cup {id}
        /\ nextUserId' = IF taken THEN id ELSE id + 1
        /\ calls' = [calls EXCEPT ![i].pc = "done",
                                  ![i].status = IF taken THEN HTTP_500_INTERNAL_SERVER_ERROR
                                                ELSE HTTP_201_CREATED]
        /\ resp' = IF taken
                   THEN Response("register", NoCredential, 0, c.arg,
                                 HTTP_500_INTERNAL_SERVER_ERROR, NoData)
                   ELSE Response("register", NoCredential, id, c.arg, HTTP_201_CREATED,
                                 [user |-> UserSerializer(accounts', id), token |-> access_token(id)])
        /\ UNCHANGED <<recipes, nextRecipeId, ratings, likes, comments, nextCommentId, follows>>

(***************************************************************************)
(* Ratings.                                                                *)
(***************************************************************************)
\* Rating.rating: choices=[(i, i) for i in range(1, 6)], checked by
\* RatingSerializer.is_valid(); a missing rating (None) is invalid.
ValidRating(rating) ==
    /\ rating # None
    /\ rating[1] \in MinRating..MaxRating

\* Rating.objects.create(...) whatever the table holds.
update_or_create_AlwaysCreate(rt, user, pk, rating) ==
    Insert(rt, [user |-> user, item |-> pk, rating |-> rating])

\* An update_or_create that looks the row up by the item alone.
update_or_create_AnyUser(rt, user, pk, rating) ==
    LET theirs == {r \in BagToSet(rt) : r.item = pk}
        old == CHOOSE r \in theirs : TRUE
    IN  IF theirs = {}
        THEN Insert(rt, [user |-> user, item |-> pk, rating |-> rating])
        ELSE Insert(Delete(rt, old), [old EXCEPT !.rating = rating])

\* Rating.objects.update_or_create(user=user, item_id=item_id,
\* defaults={'rating': rating}): the row of (user, item) gets the rating, or
\* a row is created when there is none.
update_or_create(rt, user, pk, rating) ==
    LET mine == {r \in BagToSet(rt) : r.user = user /\ r.item = pk}
        old == CHOOSE r \in mine : TRUE
    IN  IF mine = {}
        THEN Insert(rt, [user |-> user, item |-> pk, rating |-> rating])
        ELSE Insert(Delete(rt, old), [old EXCEPT !.rating = rating])

\* rate_item (POST /api/recipes/{pk}/rate/), with RatingSerializer.create.
rate_item(cred, pk, rating) ==
    LET auth == JWTAuthentication(cred)
        status == IF ~auth.ok \/ ~IsAuthenticated(auth.user) THEN HTTP_401_UNAUTHORIZED
                  ELSE IF pk \notin DOMAIN recipes THEN HTTP_404_NOT_FOUND
                  ELSE IF ~ValidRating(rating) THEN HTTP_400_BAD_REQUEST
                  ELSE HTTP_201_CREATED
    IN  /\ ratings' = IF status = HTTP_201_CREATED
                      THEN update_or_create(ratings, auth.user, pk, rating[1])
                      ELSE ratings
        /\ BagCardinality(ratings') <= MaxRows
        /\ resp' = Response("rate", cred, pk, rating, status,
                            IF status = HTTP_201_CREATED
                            THEN ItemSerializer(recipes, ratings', likes, pk, auth.user)
                            ELSE NoData)
        /\ UNCHANGED <<users, accounts, nextUserId, recipes, nextRecipeId, likes, comments, nextCommentId, follows>>

\* rate_recipe, the view of the rating walkthrough: get_object_or_404, then
\* get_or_create with the score of the request as it came, and a save of
\* the new score on the row that was there.  Nothing checks the score
\* against the choices of the field; a missing score (None) or a caller
\* who is not logged in makes the insert raise, and no row is written.
rate_recipe(cred, pk, score) ==
    LET auth == JWTAuthentication(cred)
        status == IF pk \notin DOMAIN recipes THEN HTTP_404_NOT_FOUND
                  ELSE IF ~auth.ok \/ ~is_authenticated(auth.user) \/ score = None
                  THEN HTTP_500_INTERNAL_SERVER_ERROR
                  ELSE HTTP_200_OK
    IN  /\ ratings' = IF status = HTTP_200_OK
                      THEN update_or_create(ratings, auth.user, pk, score[1])
                      ELSE ratings
        /\ BagCardinality(ratings') <= MaxRows
        /\ resp' = Response("rate_recipe", cred, pk, score, status,
                            IF status = HTTP_200_OK
                            THEN [success |-> TRUE,
                                  average |-> average_rating(ratings', pk)]
                            ELSE NoData)
        /\ UNCHANGED <<users, accounts, nextUserId, recipes, nextRecipeId, likes, comments, nextCommentId, follows>>

\* The ratings a request may carry.
RatingInputs == {Some(4), Some(5), Some(6), None}


(***************************************************************************)
(* Likes.                                                                  *)
(***************************************************************************)
\* Like.objects.create(...) whatever the table holds.
get_or_create_AlwaysCreate(lk, user, pk) ==
    [table |-> Insert(lk, [user |-> user, item |-> pk]), created |-> TRUE]

\* Like.objects.get_or_create(user=request.user, recipe=recipe)
get_or_create(lk, user, pk) ==
    IF \E l \in BagToSet(lk) : l.user = user /\ l.item = pk
    THEN [table |-> lk, created |-> FALSE]
    ELSE [table |-> Insert(lk, [user |-> user, item |-> pk]), created |-> TRUE]

\* like_recipe (POST /api/interactions/recipes/{pk}/like/): get_or_create,
\* and like.delete() when the like was already there.
like_recipe(cred, pk) ==
    LET auth == JWTAuthentication(cred)
        status == IF ~auth.ok \/ ~IsAuthenticated(auth.user) THEN HTTP_401_UNAUTHORIZED
                  ELSE IF pk \notin DOMAIN recipes THEN HTTP_404_NOT_FOUND
                  ELSE HTTP_200_OK
        got == get_or_create(likes, auth.user, pk)
    IN  /\ likes' = IF status # HTTP_200_OK THEN likes
                    ELSE IF got.created THEN got.table
                    ELSE Delete(got.table, [user |-> auth.user, item |-> pk])
        /\ BagCardinality(likes') <= MaxRows
        /\ resp' = Response("like", cred, pk, None, status,
                            IF status = HTTP_200_OK THEN [liked |-> got.created] ELSE NoData)
        /\ UNCHANGED <<users, accounts, nextUserId, recipes, nextRecipeId, ratings, comments, nextCommentId, follows>>

\* POST /api/interactions/recipes/{pk}/unlike/: deletes the caller's Like of
\* the recipe; nothing to delete is not an error.
unlike_recipe(cred, pk) ==
    LET auth == JWTAuthentication(cred)
        status == IF ~auth.ok \/ ~IsAuthenticated(auth.user) THEN HTTP_401_UNAUTHORIZED
                  ELSE IF pk \notin DOMAIN recipes THEN HTTP_404_NOT_FOUND
                  ELSE HTTP_204_NO_CONTENT
    IN  /\ likes' = IF status = HTTP_204_NO_CONTENT
                    THEN RemoveRows(likes, {l \in BagToSet(likes) : l.user = auth.user /\ l.item = pk})
                    ELSE likes
        /\ resp' = Response("unlike", cred, pk, None, status, NoData)
        /\ UNCHANGED <<users, accounts, nextUserId, recipes, nextRecipeId, ratings, comments, nextCommentId, follows>>

(***************************************************************************)
(* Follows.                                                                *)
(***************************************************************************)
followers_count(fl, u) == CopiesSum(fl, {f \in BagToSet(fl) : f.following = u})
following_count(fl, u) == CopiesSum(fl, {f \in BagToSet(fl) : f.follower = u})

\* The target a caller may not follow: itself.
SelfTarget_Never(user, target) == FALSE

SelfTarget(user, target) == user = target

\* The table after an unfollow that deletes nothing.
Unfollow_Keep(fl, row) == fl

\* The table after the caller's follow of the target is deleted.
Unfollow(fl, row) == RemoveRows(fl, {row})

\* POST /api/auth/follow/{target}/: follows the target, or unfollows it when
\* the caller follows it already; answers {following: bool}.
follow_user(cred, target) ==
    LET auth == JWTAuthentication(cred)
        status == IF ~auth.ok \/ ~IsAuthenticated(auth.user) THEN HTTP_401_UNAUTHORIZED
                  ELSE IF target \notin users THEN HTTP_404_NOT_FOUND
                  ELSE IF SelfTarget(auth.user, target) THEN HTTP_400_BAD_REQUEST
                  ELSE HTTP_200_OK
        row == [follower |-> auth.user, following |-> target]
        was == BagIn(row, follows)
    IN  /\ follows' = IF status # HTTP_200_OK THEN follows
                      ELSE IF was THEN Unfollow(follows, row)
                      ELSE Insert(follows, row)
        /\ BagCardinality(follows') <= MaxRows
        /\ resp' = Response("follow", cred, target, None, status,
                            IF status = HTTP_200_OK THEN [following |-> ~was] ELSE NoData)
        /\ UNCHANGED <<users, accounts, nextUserId, recipes, nextRecipeId, ratings, likes, comments, nextCommentId>>

\* GET /api/auth/profile/{user_id}/: the counts of the identity's followers
\* and of those it follows, computed for this response.
public_profile(cred, user_id) ==
    LET auth == JWTAuthentication(cred)
        status == IF ~auth.ok THEN HTTP_401_UNAUTHORIZED
                  ELSE IF user_id \notin users THEN HTTP_404_NOT_FOUND
                  ELSE HTTP_200_OK
    IN  /\ resp' = Response("profile", cred, user_id, None, status,
                            IF status = HTTP_200_OK
                            THEN [followers_count |-> followers_count(follows, user_id),
                                  following_count |-> following_count(follows, user_id),
                                  is_following |->
                                      BagIn([follower |-> auth.user, following |-> user_id], follows)]
                            ELSE NoData)
        /\ UNCHANGED store

(***************************************************************************)
(* Comments.                                                               *)
(***************************************************************************)
\* POST /api/interactions/recipes/{pk}/comments/add/, with
\* CommentSerializer.create: a comment of request.user on the recipe.
add_comment(cred, pk, content) ==
    LET auth == JWTAuthentication(cred)
        status == IF ~auth.ok \/ ~IsAuthenticated(auth.user) THEN HTTP_401_UNAUTHORIZED
                  ELSE IF pk \notin DOMAIN recipes THEN HTTP_404_NOT_FOUND
                  ELSE HTTP_201_CREATED
        id == nextCommentId
        row == [user |-> auth.user, item |-> pk, content |-> content, hidden |-> FALSE]
    IN  /\ nextCommentId <= MaxComments
        /\ comments' = IF status = HTTP_201_CREATED THEN comments @@ (id :> row) ELSE comments
        /\ nextCommentId' = IF status = HTTP_201_CREATED THEN id + 1 ELSE id
        /\ resp' = Response("add_comment", cred, pk, Some(content), status,
                            IF status = HTTP_201_CREATED THEN [id |-> id] @@ row ELSE NoData)
        /\ UNCHANGED <<users, accounts, nextUserId, recipes, nextRecipeId, ratings, likes, follows>>

\* Moderation open to every identity.
MayModerate_Anyone(comment, user) == TRUE

\* Who may hide or delete a comment: its author, or the author of the
\* recipe it is on.
MayModerate(comment, user) ==
    \/ comment.user = user
    \/ recipes[comment.item].author = user

\* The status the hide and delete endpoints answer before they write.
CommentCheck(cred, pk, id, success) ==
    LET auth == JWTAuthentication(cred)
    IN  IF ~auth.ok \/ ~IsAuthenticated(auth.user) THEN HTTP_401_UNAUTHORIZED
        ELSE IF id \notin DOMAIN comments \/ pk \notin DOMAIN recipes THEN HTTP_404_NOT_FOUND
        ELSE IF comments[id].item # pk THEN HTTP_404_NOT_FOUND
        ELSE IF ~MayModerate(comments[id], auth.user) THEN HTTP_403_FORBIDDEN
        ELSE success

\* A hide request that sets the flag whatever it was.
HideRow_Set(cm, id) == [cm EXCEPT ![id].hidden = TRUE]

\* The comment table after a hide request: the flag is toggled.
HideRow(cm, id) == [cm EXCEPT ![id].hidden = ~@]

\* POST /api/interactions/recipes/{pk}/comments/{id}/hide/
hide_comment(cred, pk, id) ==
    LET status == CommentCheck(cred, pk, id, HTTP_200_OK)
    IN  /\ comments' = IF status = HTTP_200_OK THEN HideRow(comments, id) ELSE comments
        /\ resp' = Response("hide", cred, id, None, status,
                            IF status = HTTP_200_OK /\ id \in DOMAIN comments'
                            THEN [hidden |-> comments'[id].hidden] ELSE NoData)
        /\ UNCHANGED <<users, accounts, nextUserId, recipes, nextRecipeId, ratings, likes, nextCommentId, follows>>

\* DELETE /api/interactions/recipes/{pk}/comments/{id}/delete/
delete_comment(cred, pk, id) ==
    LET status == CommentCheck(cred, pk, id, HTTP_204_NO_CONTENT)
    IN  /\ comments' = IF status = HTTP_204_NO_CONTENT THEN Without(comments, {id}) ELSE comments
        /\ resp' = Response("delete_comment", cred, id, None, status, NoData)
        /\ UNCHANGED <<users, accounts, nextUserId, recipes, nextRecipeId, ratings, likes, nextCommentId, follows>>

\* Editing open to whoever may hide or delete.
MayEdit_Moderators(comment, user) == MayModerate(comment, user)

\* Who may edit a comment: its author only.
MayEdit(comment, user) == comment.user = user

\* An edit that also shows the comment again.
EditRow_Unhide(cm, id, content) == [cm EXCEPT ![id].content = content, ![id].hidden = FALSE]

\* The comment table after an edit: the content is replaced.
EditRow(cm, id, content) == [cm EXCEPT ![id].content = content]

\* PUT /api/interactions/recipes/{pk}/comments/{id}/edit/
edit_comment(cred, pk, id, content) ==
    LET auth == JWTAuthentication(cred)
        status == IF ~auth.ok \/ ~IsAuthenticated(auth.user) THEN HTTP_401_UNAUTHORIZED
                  ELSE IF id \notin DOMAIN comments \/ pk \notin DOMAIN recipes THEN HTTP_404_NOT_FOUND
                  ELSE IF comments[id].item # pk THEN HTTP_404_NOT_FOUND
                  ELSE IF ~MayEdit(comments[id], auth.user) THEN HTTP_403_FORBIDDEN
                  ELSE HTTP_200_OK
    IN  /\ comments' = IF status = HTTP_200_OK
                       THEN EditRow(comments, id, content)
                       ELSE comments
        /\ resp' = Response("edit", cred, id, Some(content), status,
                            IF status = HTTP_200_OK THEN [id |-> id] @@ comments'[id] ELSE NoData)
        /\ UNCHANGED <<users, accounts, nextUserId, recipes, nextRecipeId, ratings, likes, nextCommentId, follows>>

\* Every comment of a recipe, hidden or not.
Listed_All(cm, pk) == {k \in DOMAIN cm : cm[k].item = pk}

\* The comments the default listing of a recipe shows.
Listed(cm, pk) == {k \in DOMAIN cm : cm[k].item = pk /\ ~cm[k].hidden}

\* GET /api/interactions/recipes/{pk}/comments/
list_comments(cred, pk) ==
    LET auth == JWTAuthentication(cred)
        status == IF ~auth.ok THEN HTTP_401_UNAUTHORIZED
                  ELSE IF pk \notin DOMAIN recipes THEN HTTP_404_NOT_FOUND
                  ELSE HTTP_200_OK
    IN  /\ resp' = Response("comments", cred, pk, None, status,
                            IF status = HTTP_200_OK
                            THEN [results |-> {[id |-> k] @@ comments[k] : k \in Listed(comments, pk)}]
                            ELSE NoData)
        /\ UNCHANGED store

(***************************************************************************)
(* The history of requests, kept beside the program's state: it is read    *)
(* off the response of the step and the table as it was before the step.   *)
(***************************************************************************)
Success(status) == status \in {HTTP_200_OK, HTTP_201_CREATED, HTTP_204_NO_CONTENT}

Extend(kind, r, op, had, table) ==
    IF /\ streak.kind = kind /\ streak.cred = r.cred /\ streak.pk = r.pk
       /\ Len(streak.ops) < StreakLen
    THEN [streak EXCEPT !.ops = Append(@, op)]
    ELSE [kind |-> kind, cred |-> r.cred, pk |-> r.pk, ops |-> <<op>>,
          had |-> had, start |-> table]

\* A successful rate request seen as <<score it replaced, score it set>>, or
\* as <<score it set>> when the caller had not rated the recipe.
Replaced(r) ==
    LET mine == {x \in BagToSet(ratings) : x.user = r.cred /\ x.item = r.pk}
    IN  [kind |-> "rate", cred |-> r.cred, pk |-> r.pk,
         ops |-> IF mine = {} THEN <<r.arg[1]>>
                 ELSE <<(CHOOSE x \in mine : TRUE).rating, r.arg[1]>>,
         had |-> mine # {}, start |-> EmptyBag]

Observe ==
    LET r == resp'
    IN  /\ UNCHANGED <<calls, media>>
        /\ streak' =
            IF r.op \notin {"rate", "like", "unlike", "follow"} THEN streak
            ELSE IF ~Success(r.status) THEN NoStreak
            ELSE IF r.op = "rate"
            THEN Replaced(r)
            ELSE IF r.op = "follow"
            THEN Extend("follow", r, IF r.data.following THEN "follow" ELSE "unfollow",
                        BagIn([follower |-> r.cred, following |-> r.pk], follows), follows)
            ELSE Extend("like", r, r.op,
                        BagIn([user |-> r.cred, item |-> r.pk], likes), EmptyBag)

NoHistory == UNCHANGED <<calls, media, streak>>

\* A successful deletion of a recipe or of an identity, with whether a
\* rating, a like and a comment (and, for an identity, a follow) hung on it.
Deleted(r) ==
    LET gone == IF r.op = "destroy" THEN {r.pk}
                ELSE {pk \in DOMAIN recipes : recipes[pk].author = r.pk}
        who == IF r.op = "destroy" THEN {} ELSE {r.pk}
    IN  [kind |-> "delete", cred |-> r.cred, pk |-> r.pk, ops |-> <<r.op>>,
         had |-> /\ \E x \in BagToSet(ratings) : x.item \in gone \/ x.user \in who
                 /\ \E x \in BagToSet(likes) : x.item \in gone \/ x.user \in who
                 /\ \E k \in DOMAIN comments : comments[k].item \in gone \/ comments[k].user \in who
                 /\ r.op = "delete_user"
                    => \E f \in BagToSet(follows) : f.follower \in who \/ f.following \in who,
         start |-> EmptyBag]

\* The history kept of deletions: the last request, when it deleted.
ObserveDeletes ==
    /\ UNCHANGED <<calls, media>>
    /\ streak' = IF resp'.op \in {"destroy", "delete_user"} /\ Success(resp'.status)
                 THEN Deleted(resp')
                 ELSE NoStreak

(***************************************************************************)
(* Specifications.  Each follows the requests of one part of the API; the  *)
(* tables the part does not write stay as they are.                        *)
(***************************************************************************)
CreateRecipe == \E cred \in Credentials, title \in Titles : ItemListCreateView_create(cred, title)
\* One identity publishes the recipes the others interact with.
Publish == ItemListCreateView_create(1, "Pasta")
\* Anyone, logged in or not, asks to publish a recipe.
Submit == \E cred \in Credentials : ItemListCreateView_create(cred, "Pasta")
\* The author of the recipes and one other identity comment on them.
Discuss == \E cred \in {1, MaxUsers}, pk \in RecipeIds, content \in Contents :
               add_comment(cred, pk, content)
\* Reads by a visitor who is not logged in.
VisitRecipe == \E pk \in RecipeIds : ItemDetailView_retrieve(NoCredential, pk)
VisitList == ItemListCreateView_list(NoCredential)
VisitProfile == \E u \in UserIds : public_profile(NoCredential, u)
VisitComments == \E pk \in RecipeIds : list_comments(NoCredential, pk)
\* One identity likes (and, liking again, unlikes) the recipes.
FanLikes == \E pk \in RecipeIds : like_recipe(MaxUsers, pk)
\* The publisher takes a recipe down.
Withdraw == \E pk \in RecipeIds : ItemDetailView_destroy(1, pk)
UpdateRecipe == \E cred \in Credentials, pk \in RecipeIds, title \in Titles :
                    ItemDetailView_update(cred, pk, title)
DestroyRecipe == \E cred \in Credentials, pk \in RecipeIds : ItemDetailView_destroy(cred, pk)
RetrieveRecipe == \E cred \in Credentials, pk \in RecipeIds : ItemDetailView_retrieve(cred, pk)
ListRecipes == \E cred \in Credentials : ItemListCreateView_list(cred)
RemoveUser == \E u \in UserIds : DeleteUser(u)
RateRecipe == \E cred \in Credentials, pk \in RecipeIds, rating \in RatingInputs :
                  rate_item(cred, pk, rating)
Rate == \E cred \in Credentials, pk \in RecipeIds, score \in RatingInputs :
            rate_recipe(cred, pk, score)
LikeRecipe == \E cred \in Credentials, pk \in RecipeIds : like_recipe(cred, pk)
UnlikeRecipe == \E cred \in Credentials, pk \in RecipeIds : unlike_recipe(cred, pk)
FollowUser == \E cred \in Credentials, target \in UserIds : follow_user(cred, target)
Profile == \E cred \in Credentials, u \in UserIds : public_profile(cred, u)
AddComment == \E cred \in Credentials, pk \in RecipeIds, content \in Contents :
                  add_comment(cred, pk, content)
\* The recipe in the URL of a comment: the one the comment is on.
UrlOf(id) == IF id \in DOMAIN comments THEN comments[id].item ELSE 1
HideComment == \E cred \in Credentials, id \in CommentIds : hide_comment(cred, UrlOf(id), id)
DeleteComment == \E cred \in Credentials, id \in CommentIds : delete_comment(cred, UrlOf(id), id)
EditComment == \E cred \in Credentials, id \in CommentIds :
                   edit_comment(cred, UrlOf(id), id, "Even better!")
ListComments == \E cred \in Credentials, pk \in RecipeIds : list_comments(cred, pk)

\* One identity rates, likes and comments the recipes another publishes and
\* follows it; the author deletes recipes; either identity is deleted.
Score == \E pk \in DOMAIN recipes : rate_item(MaxUsers, pk, Some(MaxRating))
Heart == \E pk \in DOMAIN recipes : like_recipe(MaxUsers, pk)
Remark == \E pk \in DOMAIN recipes : add_comment(MaxUsers, pk, "Great recipe!")
Befriend == follow_user(MaxUsers, 1)
Leave == \E u \in {1, MaxUsers} : DeleteUser(u)
OwnerDeletes == \E pk \in DOMAIN recipes : ItemDetailView_destroy(recipes[pk].author, pk)
NextCascade ==
    \/ Publish /\ ObserveDeletes
    \/ Score /\ ObserveDeletes
    \/ Heart /\ ObserveDeletes
    \/ Remark /\ ObserveDeletes
    \/ Befriend /\ ObserveDeletes
    \/ OwnerDeletes /\ ObserveDeletes
    \/ Leave /\ ObserveDeletes
SpecCascade == Init /\ [][NextCascade]_vars

\* The author and one other identity rate the first recipe, the other one
\* likes recipes, and the two and a visitor read them.
Grade == \E cred \in {1, MaxUsers}, rating \in {Some(4), Some(MaxRating)} :
             rate_item(cred, 1, rating)
Fancy == \E pk \in DOMAIN recipes : like_recipe(MaxUsers, pk)
Open == \E cred \in {NoCredential, 1, MaxUsers}, pk \in DOMAIN recipes :
            ItemDetailView_retrieve(cred, pk)
Browse == \E cred \in {NoCredential, 1, MaxUsers} : ItemListCreateView_list(cred)
NextViewer ==
    \/ Publish /\ Observe
    \/ Grade /\ Observe
    \/ Fancy /\ NoHistory
    \/ Open /\ Observe
    \/ Browse /\ Observe
SpecViewer == Init /\ [][NextViewer]_vars

\* One identity publishes recipes of 25 and of 30 minutes and retitles them;
\* a visitor lists them under query parameters, the database returning the
\* rows in any order.
Times == {<<10, 15>>, <<10, 20>>}
Params == [q : {None, Some("PASTA")}, difficulty : {None, Some("Easy")},
           max_time : {None, Some(25), Some(30)}, page : {None, Some(1), Some(2)}]
Orders(S) == {f \in [1..Cardinality(S) -> S] : \A i, j \in DOMAIN f : f[i] = f[j] => i = j}
Cook == \E title \in Titles, t \in Times :
            ItemListCreateView_post(1, [title |-> title, description |-> "Tasty",
                                        difficulty |-> "Easy", ingredients |-> <<"eggs">>,
                                        prep_time |-> t[1], cook_time |-> t[2]])
Retitle == \E pk \in DOMAIN recipes, title \in Titles : ItemDetailView_update(1, pk, title)
Query == \E params \in Params, order \in Orders(DOMAIN recipes) :
             ItemListCreateView_get(NoCredential, params, order)
NextListing ==
    \/ Cook /\ NoHistory
    \/ Retitle /\ NoHistory
    \/ Query /\ NoHistory
SpecListing == Init /\ [][NextListing]_vars

\* The pages of a list of up to MaxListed recipes that were published
\* before.  The database returns the unordered rows by ascending or by
\* descending primary key.
Dish == [author |-> 1, title |-> "Pasta", description |-> "Tasty", difficulty |-> "Easy",
         ingredients |-> <<"eggs">>, prep_time |-> 10, cook_time |-> 20]
InitPages ==
    /\ users = UserIds
    /\ accounts = [u \in UserIds |-> Registered(u)]
    /\ nextUserId = MaxUsers + 1
    /\ \E n \in 0..MaxListed : recipes = [pk \in 1..n |-> Dish] /\ nextRecipeId = n + 1
    /\ ratings = EmptyBag
    /\ likes = EmptyBag
    /\ comments = <<>>
    /\ nextCommentId = 1
    /\ follows = EmptyBag
    /\ resp = Response("none", NoCredential, 0, None, HTTP_200_OK, NoData)
    /\ calls = <<>>
    /\ media = {}
    /\ streak = NoStreak
Ascending(n) == [i \in 1..n |-> i]
Descending(n) == [i \in 1..n |-> n + 1 - i]
PageNumbers == {None} \cup {Some(p) : p \in 1..(num_pages(MaxListed) + 1)}
Turn == \E page \in PageNumbers,
           order \in {Ascending(Cardinality(DOMAIN recipes)), Descending(Cardinality(DOMAIN recipes))} :
            ItemListCreateView_get(NoCredential,
                [q |-> None, difficulty |-> None, max_time |-> None, page |-> page], order)
\* The response before the last one.
Previous ==
    /\ UNCHANGED <<calls, media>>
    /\ streak' = [NoStreak EXCEPT !.kind = resp.op, !.ops = <<resp>>]
NextPages == Turn /\ Previous
SpecPages == InitPages /\ [][NextPages]_vars

\* Recipes that differ in where a word occurs, and the searches for it.
Stock == \E title \in Titles, description \in Titles, ingredient \in Titles :
             ItemListCreateView_post(1, [title |-> title, description |-> description,
                                         difficulty |-> "Easy", ingredients |-> <<ingredient>>,
                                         prep_time |-> 10, cook_time |-> 20])
Search == \E q \in {Some("PASTA"), Some("ou")}, order \in Orders(DOMAIN recipes) :
              ItemListCreateView_get(NoCredential,
                  [q |-> q, difficulty |-> None, max_time |-> None, page |-> None], order)
NextSearch ==
    \/ Stock /\ NoHistory
    \/ Search /\ NoHistory
SpecSearch == Init /\ [][NextSearch]_vars

\* Recipes sent for creation with good and bad fields.
Payloads ==
    [title : {<<" ", " ", " ">>, <<"a", "b">>, <<"A", "b", "c">>},
     description : {<<"a", "b", "c", "d">>, <<"s", "o", "u", "p">>},
     difficulty : {"Easy"},
     ingredients : {<<>>, <<"eggs">>},
     instructions : {<<>>, <<"mix">>},
     prep_time : {0, 30, DayMinutes + 1},
     cook_time : {0, DayMinutes + 1}]
Send == \E cred \in {NoCredential, 1}, data \in Payloads : RecipeViewSet_create(cred, data)
NextCreate == Send /\ NoHistory
SpecCreate == Init /\ [][NextCreate]_vars

\* Requests of logged-in identities on recipes and comments that are there
\* and on ones that are not.
Amend == \E cred \in {1, MaxUsers}, pk \in RecipeIds : ItemDetailView_update(cred, pk, "Pasta")
Remove == \E cred \in {1, MaxUsers}, pk \in RecipeIds : ItemDetailView_destroy(cred, pk)
Judge == \E pk \in {1, MaxRecipes} : rate_item(MaxUsers, pk, Some(MaxRating))
Note == add_comment(MaxUsers, 1, "Great recipe!")
Reword == \E cred \in {1, MaxUsers}, id \in CommentIds :
              edit_comment(cred, UrlOf(id), id, "Even better!")
Conceal == \E cred \in {1, MaxUsers}, id \in CommentIds : hide_comment(cred, UrlOf(id), id)
NextMissing ==
    \/ Publish /\ NoHistory
    \/ Amend /\ NoHistory
    \/ Remove /\ NoHistory
    \/ Judge /\ NoHistory
    \/ Note /\ NoHistory
    \/ Reword /\ NoHistory
    \/ Conceal /\ NoHistory
SpecMissing == Init /\ [][NextMissing]_vars

\* Pairs of requests of one identity that rate or like one recipe at the
\* same time, in every order of their steps.
Scores == {<<Some(4), Some(MaxRating)>>}
TwoRates == \E pk \in DOMAIN recipes, args \in Scores : Arrive("rate_recipe", MaxUsers, pk, args)
TwoLikes == \E pk \in DOMAIN recipes : Arrive("like", MaxUsers, pk, <<None, None>>)
RateFinds == \E i \in DOMAIN calls : calls[i].op = "rate_recipe" /\ FindRow(i, ratings)
RateWrites == \E i \in DOMAIN calls : rate_recipe_write(i)
LikeFinds == \E i \in DOMAIN calls : calls[i].op = "like" /\ FindRow(i, likes)
LikeWrites == \E i \in DOMAIN calls : like_recipe_write(i)
NextRace ==
    \/ Publish /\ NoHistory
    \/ TwoRates /\ UNCHANGED <<media, streak>>
    \/ TwoLikes /\ UNCHANGED <<media, streak>>
    \/ RateFinds /\ UNCHANGED <<media, streak>>
    \/ RateWrites /\ UNCHANGED <<media, streak>>
    \/ LikeFinds /\ UNCHANGED <<media, streak>>
    \/ LikeWrites /\ UNCHANGED <<media, streak>>
SpecRace == Init /\ [][NextRace]_vars

\* Recipes created and updated with payloads that name an author.
Draft == \E cred \in UserIds, author \in UserIds :
             ItemListCreateView_post(cred, [title |-> "Pasta", description |-> "Tasty",
                                            difficulty |-> "Easy", ingredients |-> <<"eggs">>,
                                            prep_time |-> 10, cook_time |-> 20,
                                            author |-> author])
Patch == \E cred \in UserIds, pk \in RecipeIds, title \in Titles, author \in UserIds :
             ItemDetailView_put(cred, pk, [title |-> title, author |-> author])
NextOwner ==
    \/ Draft /\ NoHistory
    \/ Patch /\ NoHistory
SpecOwner == Init /\ [][NextOwner]_vars

\* Comments hidden and shown again.  The history keeps, for the hide
\* requests that succeeded one after the other on one comment, the flag the
\* comment had before each of the last two.
Toggled ==
    LET r == resp'
    IN  /\ UNCHANGED <<calls, media>>
        /\ streak' =
            IF r.op = "hide" /\ Success(r.status)
            THEN [NoStreak EXCEPT
                    !.kind = "hide", !.cred = r.cred, !.pk = r.pk,
                    !.ops = IF streak.kind = "hide" /\ streak.pk = r.pk
                            THEN <<streak.ops[Len(streak.ops)], comments[r.pk].hidden>>
                            ELSE <<comments[r.pk].hidden>>]
            ELSE NoStreak
NextToggle ==
    \/ Publish /\ Toggled
    \/ Discuss /\ Toggled
    \/ Conceal /\ Toggled
    \/ VisitComments /\ Toggled
SpecToggle == Init /\ [][NextToggle]_vars

\* Comments edited while hidden or visible, and listed.
NextRevise ==
    \/ Publish /\ NoHistory
    \/ Discuss /\ NoHistory
    \/ Conceal /\ NoHistory
    \/ Reword /\ NoHistory
    \/ VisitComments /\ NoHistory
SpecRevise == Init /\ [][NextRevise]_vars

\* Two identities rate, like, unlike and follow, each with rows of its own.
Rates == \E cred \in {1, MaxUsers}, rating \in {Some(4), Some(MaxRating)} : rate_item(cred, 1, rating)
Hearts == \E cred \in {1, MaxUsers}, pk \in DOMAIN recipes : like_recipe(cred, pk)
Unhearts == \E cred \in {1, MaxUsers}, pk \in DOMAIN recipes : unlike_recipe(cred, pk)
Befriends == \E cred \in {1, MaxUsers}, target \in {1, MaxUsers} : follow_user(cred, target)
NextFrame ==
    \/ Publish /\ NoHistory
    \/ Rates /\ NoHistory
    \/ Hearts /\ NoHistory
    \/ Unhearts /\ NoHistory
    \/ Befriends /\ NoHistory
SpecFrame == Init /\ [][NextFrame]_vars

\* Recipes created and updated with an image, with and without failures.
Images == {"a.jpg", "b.jpg"}
Illustrate == \E cred \in {NoCredential, 1}, image \in Images, failure \in Failures :
                  ItemListCreateView_post_image(cred, "Pasta", image, failure)
Repaint == \E cred \in {1, MaxUsers}, pk \in RecipeIds, image \in Images, failure \in Failures :
               ItemDetailView_put_image(cred, pk, image, failure)
ImageSteps == UNCHANGED <<calls, streak>>
NextImages ==
    \/ Illustrate /\ ImageSteps
    \/ Repaint /\ ImageSteps
SpecImages == Init /\ [][NextImages]_vars

\* Registration and login on a database that starts with no identity.
InitAccounts ==
    /\ users = {}
    /\ accounts = <<>>
    /\ nextUserId = 1
    /\ recipes = <<>>
    /\ nextRecipeId = 1
    /\ ratings = EmptyBag
    /\ likes = EmptyBag
    /\ comments = <<>>
    /\ nextCommentId = 1
    /\ follows = EmptyBag
    /\ resp = Response("none", NoCredential, 0, None, HTTP_200_OK, NoData)
    /\ calls = <<>>
    /\ media = {}
    /\ streak = NoStreak
Passwords == {Text("p", min_length - 1), Text("p", min_length), Text("q", min_length)}
Register == \E username \in {Username(1), Username(2)}, email \in {Email(1), Email(2)},
               password \in Passwords, password_confirm \in Passwords :
                register([username |-> username, email |-> email,
                          password |-> password, password_confirm |-> password_confirm])
Login == \E email \in {None, Some(Email(1)), Some(Email(2))},
            password \in {None} \cup {Some(p) : p \in Passwords} : login(email, password)
NextAccounts ==
    \/ Register /\ NoHistory
    \/ Login /\ NoHistory
SpecAccounts == InitAccounts /\ [][NextAccounts]_vars

\* Pairs of registrations with one e-mail that run at the same time.
Form(username, email) ==
    Some([username |-> username, email |-> email,
          password |-> Text("p", min_length), password_confirm |-> Text("p", min_length)])
TwoRegisters ==
    \E email \in {Email(1), Email(2)}, first \in {Username(1), Username(2)},
       second \in {Username(1), Username(2)} :
        /\ nextUserId <= MaxUsers
        /\ Arrive("register", NoCredential, 0, <<Form(first, email), Form(second, email)>>)
Validates == \E i \in DOMAIN calls : register_is_valid(i)
Saves == \E i \in DOMAIN calls : register_save(i)
NextSignup ==
    \/ TwoRegisters /\ UNCHANGED <<media, streak>>
    \/ Validates /\ UNCHANGED <<media, streak>>
    \/ Saves /\ UNCHANGED <<media, streak>>
SpecSignup == InitAccounts /\ [][NextSignup]_vars

\* Recipes and who may change them, with likes as the interactions at stake.
NextRecipes ==
    \/ Submit /\ NoHistory
    \/ UpdateRecipe /\ NoHistory
    \/ DestroyRecipe /\ NoHistory
    \/ RemoveUser /\ NoHistory
    \/ FanLikes /\ NoHistory
SpecRecipes == Init /\ [][NextRecipes]_vars

\* Ratings and the average read back.
NextRatings ==
    \/ Publish /\ Observe
    \/ RateRecipe /\ Observe
    \/ VisitRecipe /\ Observe
    \/ VisitList /\ Observe
SpecRatings == Init /\ [][NextRatings]_vars

\* Ratings given through the view of the rating walkthrough.
NextScores ==
    \/ Publish /\ NoHistory
    \/ Rate /\ NoHistory
    \/ VisitRecipe /\ NoHistory
SpecScores == Init /\ [][NextScores]_vars

\* Likes, follows and the counts read back.
NextSocial ==
    \/ Publish /\ NoHistory
    \/ LikeRecipe /\ NoHistory
    \/ UnlikeRecipe /\ NoHistory
    \/ VisitRecipe /\ NoHistory
    \/ VisitList /\ NoHistory
    \/ FollowUser /\ NoHistory
    \/ VisitProfile /\ NoHistory
SpecSocial == Init /\ [][NextSocial]_vars

\* Likes, with the history of the like requests.
NextLikes ==
    \/ Publish /\ Observe
    \/ LikeRecipe /\ Observe
    \/ UnlikeRecipe /\ Observe
SpecLikes == Init /\ [][NextLikes]_vars

\* Follows, with the history of the follow requests.
NextFollows ==
    \/ FollowUser /\ Observe
    \/ Profile /\ Observe
SpecFollows == Init /\ [][NextFollows]_vars

\* Comments and their moderation.
NextComments ==
    \/ Publish /\ NoHistory
    \/ Withdraw /\ NoHistory
    \/ Discuss /\ NoHistory
    \/ HideComment /\ NoHistory
    \/ DeleteComment /\ NoHistory
    \/ VisitComments /\ NoHistory
SpecComments == Init /\ [][NextComments]_vars

\* Comments and their edition.
NextEditing ==
    \/ Publish /\ NoHistory
    \/ Discuss /\ NoHistory
    \/ EditComment /\ NoHistory
SpecEditing == Init /\ [][NextEditing]_vars

\* Every request of the API.
Next ==
    \/ CreateRecipe /\ Observe
    \/ UpdateRecipe /\ Observe
    \/ DestroyRecipe /\ Observe
    \/ RetrieveRecipe /\ Observe
    \/ ListRecipes /\ Observe
    \/ RemoveUser /\ Observe
    \/ RateRecipe /\ Observe
    \/ LikeRecipe /\ Observe
    \/ UnlikeRecipe /\ Observe
    \/ FollowUser /\ Observe
    \/ Profile /\ Observe
    \/ AddComment /\ Observe
    \/ HideComment /\ Observe
    \/ DeleteComment /\ Observe
    \/ ListComments /\ Observe
    \/ EditComment /\ Observe
    \/ Rate /\ Observe
    \/ Query /\ Observe
    \/ Register /\ Observe
    \/ Login /\ Observe
Spec == Init /\ [][Next]_vars

-----------------------------------------------------------------------------
\* Properties of recipe ownership.

\* The step answers an update or a delete of recipe pk made by caller c.
Modifies(c, pk) ==
    /\ resp'.op \in {"update", "destroy"}
    /\ resp'.cred = c
    /\ resp'.pk = pk

\* A caller who is a user but not the author of the existing recipe is
\* refused with 403 and nothing stored changes.
NonOwnerRefused ==
    \A c \in UserIds : \A pk \in RecipeIds :
        (/\ Modifies(c, pk)
         /\ c \in users
         /\ pk \in DOMAIN recipes
         /\ recipes[pk].author # c)
        => /\ resp'.status = HTTP_403_FORBIDDEN
           /\ store' = store

\* A recipe changes or disappears only in a request of its author on it, or
\* when its author's account is deleted.
OnlyOwnerChanges ==
    \A pk \in DOMAIN recipes :
        (pk \notin DOMAIN recipes' \/ recipes'[pk] # recipes[pk])
        => \/ Modifies(recipes[pk].author, pk)
           \/ /\ resp'.op = "delete_user"
              /\ resp'.pk = recipes[pk].author

\* C1: an update or delete of a recipe by an authenticated caller who is not
\* its author returns 403 and leaves the recipe and its interactions as they
\* were; a recipe changes only by a request of its author or by the deletion
\* of its author.
C1_OnlyOwnerModifies == [][NonOwnerRefused /\ OnlyOwnerChanges]_vars

\* C1 witness: a user who is not the author has asked to update or delete a
\* recipe that has a like, and was answered 403.
C1_NonOwnerTried ==
    /\ resp.op \in {"update", "destroy"}
    /\ resp.status = HTTP_403_FORBIDDEN
    /\ resp.cred \in users
    /\ resp.pk \in DOMAIN recipes
    /\ recipes[resp.pk].author # resp.cred
    /\ likes_count(likes, resp.pk) > 0

\* C2: an update or delete of an existing recipe that carries no credential,
\* or a credential that resolves to no user, is answered 401 and changes
\* nothing.
C2_AnonymousUnauthorized ==
    [][\A pk \in DOMAIN recipes : \A c \in Credentials :
        (Modifies(c, pk) /\ c \notin users)
        => (resp'.status = HTTP_401_UNAUTHORIZED /\ store' = store)]_vars

-----------------------------------------------------------------------------
\* Properties of ratings.

\* The Rating rows of one user on one recipe, and how many there are.
RatingsBy(rt, c, pk) == {x \in BagToSet(rt) : x.user = c /\ x.item = pk}
RatingCount(rt, c, pk) == CopiesSum(rt, RatingsBy(rt, c, pk))

\* No pair of a user and a recipe has two Rating rows.
OneRatingPerPair ==
    \A c \in UserIds : \A pk \in RecipeIds : RatingCount(ratings, c, pk) <= 1

\* After a rating s1 was replaced by s2, the caller's only row holds s2.
ReplacedScoreStored ==
    (streak.kind = "rate" /\ Len(streak.ops) = 2)
    => /\ RatingCount(ratings, streak.cred, streak.pk) = 1
       /\ \A x \in RatingsBy(ratings, streak.cred, streak.pk) : x.rating = streak.ops[2]

\* A successful rating by a caller who had rated the recipe adds no row.
RerateAddsNoRow ==
    (/\ resp'.op = "rate"
     /\ resp'.status = HTTP_201_CREATED
     /\ RatingsBy(ratings, resp'.cred, resp'.pk) # {})
    => BagCardinality(ratings') = BagCardinality(ratings)

\* C3: after any sequence of ratings the store holds at most one Rating per
\* (user, recipe); rating a recipe again creates no row and leaves the
\* caller's single rating with the new score.
C3_RatingUpsert ==
    /\ [](OneRatingPerPair /\ ReplacedScoreStored)
    /\ [][RerateAddsNoRow]_vars

\* C3 witness: a caller who had rated a recipe 4 has just rated it 5, and
\* holds one rating of 5 on it.
C3_Rerated ==
    /\ resp.op = "rate"
    /\ resp.status = HTTP_201_CREATED
    /\ streak.kind = "rate"
    /\ streak.cred = resp.cred /\ streak.pk = resp.pk
    /\ streak.ops = <<4, 5>>
    /\ RatingsBy(ratings, resp.cred, resp.pk) = {[user |-> resp.cred, item |-> resp.pk, rating |-> 5]}
    /\ BagCardinality(ratings) = MaxRows

\* The rational avg is the arithmetic mean of the scores stored for recipe
\* pk, and is 0 when none is stored.
IsMean(avg, rt, pk) ==
    LET rows == {x \in BagToSet(rt) : x.item = pk}
        n == CopiesSum(rt, rows)
    IN  IF n = 0 THEN avg = <<0, 1>>
        ELSE /\ avg[2] > 0
             /\ avg[1] * n = RatingSum(rt, rows) * avg[2]
             /\ Gcd(avg[1], avg[2]) = 1

\* C4: the average_rating that a recipe's detail, the recipe list and the
\* response to a rating report for a recipe is the arithmetic mean of the
\* scores stored for it, and 0 when it has no rating.
C4_AverageIsMean ==
    /\ (resp.op \in {"retrieve", "rate"} /\ Success(resp.status))
       => IsMean(resp.data.average_rating, ratings, resp.pk)
    /\ (resp.op = "list" /\ Success(resp.status))
       => \A item \in resp.data.results : IsMean(item.average_rating, ratings, item.id)

\* C4 witness: the detail of a recipe rated 4 and 5 reports 9/2.
C4_HalfStarAverage ==
    /\ resp.op = "retrieve"
    /\ resp.status = HTTP_200_OK
    /\ RatingSum(ratings, RatingsOf(ratings, resp.pk)) = 9
    /\ resp.data.average_rating = <<9, 2>>

-----------------------------------------------------------------------------
\* Properties of likes and of the counts that reads report.

\* The number of rows of table B whose field f names v.
RowsNaming(B, f, v) == CopiesSum(B, {x \in BagToSet(B) : x[f] = v})

LikeCount(lk, c, pk) == CopiesSum(lk, {x \in BagToSet(lk) : x.user = c /\ x.item = pk})

\* No pair of a user and a recipe has two Like rows.
OneLikePerPair ==
    \A c \in UserIds : \A pk \in RecipeIds : LikeCount(likes, c, pk) <= 1

\* A caller with no like on a recipe who liked, unliked and liked it has one.
LikeUnlikeLike ==
    (/\ streak.kind = "like"
     /\ ~streak.had
     /\ streak.ops = <<"like", "unlike", "like">>)
    => LikeCount(likes, streak.cred, streak.pk) = 1

\* C6: after any sequence of like and unlike requests the store holds at most
\* one Like per (user, recipe); a caller with no like on a recipe who likes,
\* unlikes and likes it again has exactly one Like row on it.
C6_OneLikePerPair == OneLikePerPair /\ LikeUnlikeLike

\* C6 witness: a caller has liked, unliked and liked a recipe, and has one
\* Like row on it.
C6_LikedAgain ==
    /\ streak.kind = "like"
    /\ ~streak.had
    /\ streak.ops = <<"like", "unlike", "like">>
    /\ resp.op = "like"
    /\ LikeCount(likes, streak.cred, streak.pk) = 1

\* C7: liking a recipe the caller already likes, and unliking a recipe the
\* caller does not like, succeed and leave the Like table as it was.
C7_LikeIdempotent ==
    [][/\ (/\ resp'.op = "like"
           /\ resp'.cred \in users
           /\ resp'.pk \in DOMAIN recipes
           /\ LikeCount(likes, resp'.cred, resp'.pk) > 0)
          => (Success(resp'.status) /\ likes' = likes)
       /\ (/\ resp'.op = "unlike"
           /\ resp'.cred \in users
           /\ resp'.pk \in DOMAIN recipes
           /\ LikeCount(likes, resp'.cred, resp'.pk) = 0)
          => (Success(resp'.status) /\ likes' = likes)]_vars

-----------------------------------------------------------------------------
\* Properties of follows.

\* No Follow row names one identity as follower and as followed.
NoSelfFollow == \A f \in BagToSet(follows) : f.follower # f.following

\* A user's request to follow itself is answered 400 and changes no Follow.
SelfFollowRefused ==
    (/\ resp'.op = "follow"
     /\ resp'.cred \in users
     /\ resp'.pk = resp'.cred)
    => /\ resp'.status = HTTP_400_BAD_REQUEST
       /\ follows' = follows

\* C8: a user's request to follow itself fails with a validation error and
\* leaves the Follow table unchanged; no reachable state holds a Follow whose
\* follower and followed are the same identity.
C8_NoSelfFollow == []NoSelfFollow /\ [][SelfFollowRefused]_vars

\* C8 witness: a user who follows another has asked to follow itself and was
\* answered 400.
C8_SelfFollowTried ==
    /\ resp.op = "follow"
    /\ resp.cred \in users
    /\ resp.pk = resp.cred
    /\ resp.status = HTTP_400_BAD_REQUEST
    /\ RowsNaming(follows, "follower", resp.cred) = 1

\* The caller a did not follow b and has since made exactly the requests ops
\* on b, no other follow request coming between.
FollowRun(ops) ==
    /\ streak.kind = "follow"
    /\ ~streak.had
    /\ streak.cred # streak.pk
    /\ streak.ops = ops

\* C9: when a does not follow b, a follow of b by a and then an unfollow
\* return a's following count, b's follower count and the whole Follow table
\* to what they were; between the two each count is one higher.
C9_FollowUnfollow ==
    /\ FollowRun(<<"follow">>)
       => /\ RowsNaming(follows, "follower", streak.cred)
               = RowsNaming(streak.start, "follower", streak.cred) + 1
          /\ RowsNaming(follows, "following", streak.pk)
               = RowsNaming(streak.start, "following", streak.pk) + 1
    /\ FollowRun(<<"follow", "unfollow">>)
       => /\ follows = streak.start
          /\ RowsNaming(follows, "follower", streak.cred)
               = RowsNaming(streak.start, "follower", streak.cred)
          /\ RowsNaming(follows, "following", streak.pk)
               = RowsNaming(streak.start, "following", streak.pk)

\* C9 witness: a has followed and unfollowed b while b follows a, and the
\* Follow table is the one from before.
C9_Unfollowed ==
    /\ FollowRun(<<"follow", "unfollow">>)
    /\ resp.op = "follow"
    /\ resp.status = HTTP_200_OK
    /\ ~resp.data.following
    /\ follows = streak.start
    /\ BagIn([follower |-> streak.pk, following |-> streak.cred], follows)

-----------------------------------------------------------------------------
\* Properties of comment moderation.

\* The default listing of a recipe's comments shows no comment that is
\* stored as hidden.
HiddenNotListed ==
    (resp.op = "comments" /\ Success(resp.status))
    => \A c \in resp.data.results :
           /\ c.id \in DOMAIN comments
           /\ ~comments[c.id].hidden

\* A hide request keeps the comment with its content, author and recipe.
HideKeepsRow ==
    (resp'.op = "hide" /\ Success(resp'.status))
    => /\ resp'.pk \in DOMAIN comments
       /\ resp'.pk \in DOMAIN comments'
       /\ comments'[resp'.pk].content = comments[resp'.pk].content
       /\ comments'[resp'.pk].user = comments[resp'.pk].user
       /\ comments'[resp'.pk].item = comments[resp'.pk].item
       /\ comments'[resp'.pk].hidden = ~comments[resp'.pk].hidden

\* A comment leaves the store only by its deletion or by the deletion of
\* its recipe or of an identity.
OnlyDeleteRemoves ==
    \A k \in DOMAIN comments :
        k \notin DOMAIN comments'
        => \/ resp'.op = "delete_comment" /\ resp'.pk = k
           \/ resp'.op = "destroy" /\ resp'.pk = comments[k].item
           \/ resp'.op = "delete_user"

\* C10: a hidden comment never appears in the default listing of its
\* recipe's comments, yet hiding does not delete it: the row, with its
\* content and author, stays until it is deleted or its recipe is.
C10_HiddenKeptNotListed ==
    /\ []HiddenNotListed
    /\ [][HideKeepsRow /\ OnlyDeleteRemoves]_vars

\* C10 witness: the listing of a recipe with a hidden and a visible comment
\* shows the visible one only.
C10_ListedWithoutHidden ==
    /\ resp.op = "comments"
    /\ resp.status = HTTP_200_OK
    /\ Cardinality(resp.data.results) = 1
    /\ \E k \in DOMAIN comments :
           /\ comments[k].item = resp.pk
           /\ comments[k].hidden
           /\ \A c \in resp.data.results : c.id # k

-----------------------------------------------------------------------------
\* Properties of deletion.

\* Every rating, like and comment names a stored recipe and an existing
\* identity; every follow names two existing identities; every recipe has
\* an existing author.
NoDangling ==
    /\ \A x \in BagToSet(ratings) : x.item \in DOMAIN recipes /\ x.user \in users
    /\ \A x \in BagToSet(likes) : x.item \in DOMAIN recipes /\ x.user \in users
    /\ \A k \in DOMAIN comments :
           comments[k].item \in DOMAIN recipes /\ comments[k].user \in users
    /\ \A f \in BagToSet(follows) : f.follower \in users /\ f.following \in users
    /\ \A pk \in DOMAIN recipes : recipes[pk].author \in users

\* The rows of the three interaction tables, as a set of <<table, row>>.
Interactions(rt, lk, cm) ==
    {<<"rating", x>> : x \in BagToSet(rt)} \cup {<<"like", x>> : x \in BagToSet(lk)}
        \cup {<<"comment", cm[k]>> : k \in DOMAIN cm}

\* A successful delete of recipe pk removes it with every rating, like and
\* comment on it, and nothing else.
DestroyCascades ==
    (resp'.op = "destroy" /\ Success(resp'.status))
    => /\ resp'.pk \notin DOMAIN recipes'
       /\ Interactions(ratings', likes', comments')
            = {i \in Interactions(ratings, likes, comments) : i[2].item # resp'.pk}
       /\ follows' = follows /\ users' = users

\* The deletion of identity u removes its recipes, every rating, like and
\* comment on them or by u, and every follow naming u, and nothing else.
DeleteUserCascades ==
    resp'.op = "delete_user"
    => LET u == resp'.pk
           gone == {pk \in DOMAIN recipes : recipes[pk].author = u}
       IN  /\ u \notin users'
           /\ DOMAIN recipes' = DOMAIN recipes \ gone
           /\ Interactions(ratings', likes', comments')
                = {i \in Interactions(ratings, likes, comments) :
                       i[2].item \notin gone /\ i[2].user # u}
           /\ BagToSet(follows')
                = {f \in BagToSet(follows) : f.follower # u /\ f.following # u}

\* C11: deletes cascade and no record dangles: deleting a recipe removes its
\* ratings, likes and comments; deleting an identity removes its recipes with
\* theirs, its own ratings, likes and comments, and the follows naming it;
\* in every reachable state each record refers to stored recipes and
\* existing identities.
C11_DeletesCascade ==
    /\ []NoDangling
    /\ [][DestroyCascades /\ DeleteUserCascades]_vars

\* C11 witness: an identity on which a rating, a like, a comment and a
\* follow hung has just been deleted, another identity remains, and nothing
\* dangles.
C11_IdentityDeleted ==
    /\ resp.op = "delete_user"
    /\ streak.kind = "delete"
    /\ streak.had
    /\ users # {}
    /\ NoDangling

-----------------------------------------------------------------------------
\* Properties of the per-caller fields of a recipe read.

\* What caller c is to see in user_rating and is_liked of recipe pk: its own
\* score or null, and whether it has a Like; null and false when anonymous.
OwnView(c, pk) ==
    LET mine == {x \in BagToSet(ratings) : x.user = c /\ x.item = pk}
    IN  [user_rating |-> IF c \in users /\ mine # {}
                         THEN <<(CHOOSE x \in mine : TRUE).rating>> ELSE <<>>,
         is_liked |-> c \in users /\ \E x \in BagToSet(likes) : x.user = c /\ x.item = pk]

\* The two per-caller fields of a serialized recipe.
Personal(item) == [user_rating |-> item.user_rating, is_liked |-> item.is_liked]

\* A detail or a list answered to caller c carries c's own view.
ReadShowsOwnView ==
    /\ (resp.op = "retrieve" /\ Success(resp.status))
       => Personal(resp.data) = OwnView(resp.cred, resp.pk)
    /\ (resp.op = "list" /\ Success(resp.status))
       => \A item \in resp.data.results : Personal(item) = OwnView(resp.cred, item.id)

\* A rating or like by one identity changes no other caller's two fields.
OthersViewKept ==
    (resp'.op \in {"rate", "like", "unlike"})
    => \A c \in Credentials \ {resp'.cred} : \A pk \in DOMAIN recipes :
           /\ get_user_rating(ratings', pk, c) = get_user_rating(ratings, pk, c)
           /\ get_is_liked(likes', pk, c) = get_is_liked(likes, pk, c)

\* C12: in a recipe read the caller's user_rating is its own current score
\* or null and is_liked is whether it has a Like; an anonymous caller gets
\* null and false; another identity's rating or like never changes them.
C12_PerCallerFields == []ReadShowsOwnView /\ [][OthersViewKept]_vars

\* C12 witness: after identity 2 rated recipe of identity 1 with 4 and then
\* 5, identity 1 reads it and sees no rating of its own and the average 5.
C12_OwnerSeesNull ==
    /\ streak.kind = "rate"
    /\ streak.ops = <<4, 5>>
    /\ streak.cred = 2
    /\ resp.op = "retrieve"
    /\ resp.status = HTTP_200_OK
    /\ resp.cred = 1
    /\ resp.pk = streak.pk
    /\ recipes[resp.pk].author = 1
    /\ resp.data.user_rating = None
    /\ resp.data.average_rating = <<5, 1>>
    /\ get_user_rating(ratings, resp.pk, 2) = Some(5)

-----------------------------------------------------------------------------
\* Properties of the recipe list.

\* The primary keys a list response holds, in its order.
ListedIds(data) == [i \in DOMAIN data.results |-> data.results[i].id]
Range(f) == {f[i] : i \in DOMAIN f}

\* C13: a list under max_time = m holds exactly the recipes that match the
\* other filters and whose prep_time + cook_time is at most m (10 + 20 is
\* out for m = 25 and in for m = 30).
C13_MaxTimeFilters ==
    (/\ resp.op = "query"
     /\ resp.status = HTTP_200_OK
     /\ resp.arg[1].max_time # None
     /\ resp.arg[1].page \in {None, Some(1)})
    => Range(ListedIds(resp.data))
         = {pk \in get_queryset(recipes, resp.arg[1]) :
                recipes[pk].prep_time + recipes[pk].cook_time <= resp.arg[1].max_time[1]}

\* C20: a list with no ordering asked for is in reverse order of creation:
\* of two recipes it holds, the one created later (the larger primary key)
\* comes first, whatever the filters and whatever was updated since.
C20_NewestFirst ==
    (resp.op = "query" /\ resp.status = HTTP_200_OK)
    => \A i, j \in DOMAIN resp.data.results :
           i < j => resp.data.results[i].id > resp.data.results[j].id

-----------------------------------------------------------------------------
\* Properties of registration and login.

\* The request is one the registration has to refuse: its e-mail is the one
\* of an identity, its password is shorter than min_length, or the
\* confirmation is not the password.
Refusable(acc, data) ==
    \/ \E u \in DOMAIN acc : acc[u].email = data.email
    \/ Len(data.password) < min_length
    \/ data.password # data.password_confirm

\* A response that issues a credential.
IssuesCredential(r) == "token" \in DOMAIN r.data

\* The password of the request is nowhere in the response.
PasswordWithheld(r) ==
    /\ "password" \notin DOMAIN r.data.user
    /\ \A f \in DOMAIN r.data.user \ {"id"} : r.data.user[f] # r.arg[1].password
    /\ r.data.token # r.arg[1].password

RegisterRefuses ==
    (resp'.op = "register" /\ Refusable(accounts, resp'.arg[1]))
    => /\ resp'.status = HTTP_400_BAD_REQUEST
       /\ store' = store
       /\ ~IssuesCredential(resp')

RegisterCreatesOne ==
    (resp'.op = "register" /\ resp'.status = HTTP_201_CREATED)
    => /\ resp'.pk \notin users
       /\ users' = users \cup {resp'.pk}
       /\ DOMAIN accounts' = DOMAIN accounts \cup {resp'.pk}
       /\ \A u \in DOMAIN accounts : accounts'[u] = accounts[u]
       /\ accounts'[resp'.pk].email = resp'.arg[1].email
       /\ accounts'[resp'.pk].password # resp'.arg[1].password
       /\ check_password(resp'.arg[1].password, accounts'[resp'.pk].password)
       /\ PasswordWithheld(resp')

\* C14: register answers 400, creates no identity and issues no credential
\* when the e-mail is already used, the password has fewer than 8 characters
\* or the confirmation differs; a successful register adds exactly one
\* identity, stores a hash of the password and not the password, and its
\* response does not hold the password.
C14_RegisterValidates == [][RegisterRefuses /\ RegisterCreatesOne]_vars

\* A registration was refused only because its e-mail is the one of an
\* identity registered before: its password is long enough and confirmed.
C14_UsedEmailRefused ==
    /\ resp.op = "register"
    /\ resp.status = HTTP_400_BAD_REQUEST
    /\ \E u \in users : accounts[u].email = resp.arg[1].email
                         /\ accounts[u].username # resp.arg[1].username
                         /\ accounts[u].password # resp.arg[1].password
    /\ Len(resp.arg[1].password) >= min_length
    /\ resp.arg[1].password = resp.arg[1].password_confirm

\* C15: a login with an unknown e-mail or a password that does not match
\* the stored hash is answered 401.
C15_LoginFailureIs401 ==
    (/\ resp.op = "login"
     /\ resp.arg[1].email # None
     /\ resp.arg[1].password # None
     /\ \A u \in DOMAIN accounts :
            \/ accounts[u].email # resp.arg[1].email[1]
            \/ ~check_password(resp.arg[1].password[1], accounts[u].password))
    => resp.status = HTTP_401_UNAUTHORIZED

-----------------------------------------------------------------------------
\* Properties of the edition and moderation of comments.

\* The request of response r came from a logged-in identity and named a
\* comment that was stored.
OnStoredComment(r, op) ==
    /\ r.op = op
    /\ JWTAuthentication(r.cred).ok
    /\ IsAuthenticated(JWTAuthentication(r.cred).user)
    /\ r.pk \in DOMAIN comments

EditOnlyByOwner ==
    OnStoredComment(resp', "edit")
    => IF comments[resp'.pk].user = JWTAuthentication(resp'.cred).user
       THEN /\ resp'.status = HTTP_200_OK
            /\ comments'[resp'.pk].content = resp'.arg[1]
       ELSE /\ resp'.status = HTTP_403_FORBIDDEN
            /\ comments' = comments

\* C16: an edit of a comment succeeds only for the comment's owner; any
\* other logged-in caller, the owner of the recipe included, gets 403 and
\* the comment keeps its content.
C16_EditOnlyByOwner == [][EditOnlyByOwner]_vars

\* The owner of the recipe was refused the edit of another's comment on it.
C16_RecipeOwnerRefused ==
    /\ resp.op = "edit"
    /\ resp.status = HTTP_403_FORBIDDEN
    /\ resp.pk \in DOMAIN comments
    /\ recipes[comments[resp.pk].item].author = resp.cred
    /\ comments[resp.pk].user # resp.cred
    /\ comments[resp.pk].content # resp.arg[1]

\* The identity u owns the stored comment k or the recipe it is on.
OwnsCommentOrRecipe(u, k) ==
    \/ comments[k].user = u
    \/ recipes[comments[k].item].author = u

HideByOwners ==
    OnStoredComment(resp', "hide")
    => IF OwnsCommentOrRecipe(JWTAuthentication(resp'.cred).user, resp'.pk)
       THEN /\ resp'.status = HTTP_200_OK
            /\ resp'.pk \in DOMAIN comments'
            /\ comments'[resp'.pk].hidden # comments[resp'.pk].hidden
       ELSE /\ resp'.status = HTTP_403_FORBIDDEN
            /\ comments' = comments

DeleteByOwners ==
    OnStoredComment(resp', "delete_comment")
    => IF OwnsCommentOrRecipe(JWTAuthentication(resp'.cred).user, resp'.pk)
       THEN /\ resp'.status = HTTP_204_NO_CONTENT
            /\ resp'.pk \notin DOMAIN comments'
       ELSE /\ resp'.status = HTTP_403_FORBIDDEN
            /\ comments' = comments

-----------------------------------------------------------------------------
\* Properties of the scores.

\* C18: every stored rating has a score between 1 and 5, since a request
\* whose score is missing or outside 1..5 is refused and writes nothing.
C18_ScoresInRange ==
    \A r \in BagToSet(ratings) : r.rating \in MinRating..MaxRating

-----------------------------------------------------------------------------
\* Properties of the pages.

\* The page number a list request asks for.
PageOf(r) == IF r.arg[1].page = None THEN 1 ELSE r.arg[1].page[1]

\* C19: the pages of a filtered result partition it: two different pages of
\* the same list, asked for one after the other with no write in between,
\* have no recipe in common.
C19_PagesPartition ==
    (/\ streak.kind = "query"
     /\ resp.op = "query"
     /\ streak.ops[1].status = HTTP_200_OK
     /\ resp.status = HTTP_200_OK
     /\ PageOf(streak.ops[1]) # PageOf(resp))
    => Range(ListedIds(streak.ops[1].data)) \cap Range(ListedIds(resp.data)) = {}

-----------------------------------------------------------------------------
\* Properties of the search.

\* C21: a list under the free text q holds exactly the recipes that have q,
\* whatever its case, in the title, in the description or in one of the
\* ingredients; a recipe that has it in an ingredient only is listed.
C21_SearchMatchesThreeFields ==
    (/\ resp.op = "query"
     /\ resp.status = HTTP_200_OK
     /\ resp.arg[1].q # None
     /\ resp.arg[1].difficulty = None
     /\ resp.arg[1].page = None)
    => Range(ListedIds(resp.data))
         = {pk \in DOMAIN recipes :
                \/ icontains(recipes[pk].title, resp.arg[1].q[1])
                \/ icontains(recipes[pk].description, resp.arg[1].q[1])
                \/ \E i \in DOMAIN recipes[pk].ingredients :
                       icontains(recipes[pk].ingredients[i], resp.arg[1].q[1])}

-----------------------------------------------------------------------------
\* Properties of the creation of recipes.

\* The fields the creation has to accept.
Acceptable(data) ==
    /\ Len(strip(data.title)) >= MinTitle
    /\ data.prep_time \in 0..DayMinutes
    /\ data.cook_time \in 0..DayMinutes
    /\ data.ingredients # <<>>
    /\ data.instructions # <<>>

\* C22: a creation by a logged-in caller is accepted exactly when the
\* trimmed title has 3 characters or more, both times are in 0..1440 and
\* both lists are non-empty (a time of 0 is fine, a title of 3 spaces is
\* not), and every other creation is answered 400.
C22_CreateValidates ==
    (resp.op = "create_recipe" /\ resp.cred # NoCredential)
    => IF Acceptable(resp.arg[1])
       THEN resp.status = HTTP_201_CREATED
       ELSE resp.status = HTTP_400_BAD_REQUEST

-----------------------------------------------------------------------------
\* Properties of the order of the checks.

\* The record the request of response r is made on was not stored when the
\* request came: the recipe of an update, a delete or a rating, the comment
\* of an edit or a hide.
TargetMissing(r) ==
    \/ r.op \in {"update", "destroy", "rate"} /\ r.pk \notin DOMAIN recipes
    \/ r.op \in {"edit", "hide"} /\ r.pk \notin DOMAIN comments

OnTarget(r) ==
    /\ r.op \in {"update", "destroy", "rate", "edit", "hide"}
    /\ r.cred \in users

MissingIsNotFound ==
    (OnTarget(resp') /\ TargetMissing(resp'))
    => /\ resp'.status = HTTP_404_NOT_FOUND
       /\ store' = store

ForbiddenOnlyOnStored ==
    (OnTarget(resp') /\ resp'.status = HTTP_403_FORBIDDEN) => ~TargetMissing(resp')

\* C23: an update, delete, rating, edit or hide by a logged-in caller on a
\* record that does not exist is answered 404, not 403, and writes nothing;
\* 403 is the answer only for a record that exists.
C23_ExistenceBeforeOwnership == [][MissingIsNotFound /\ ForbiddenOnlyOnStored]_vars

\* An identity that owns no recipe asked to delete a recipe that is not
\* stored, and was answered 404.
C23_MissingAskedByStranger ==
    /\ resp.op = "destroy"
    /\ resp.status = HTTP_404_NOT_FOUND
    /\ resp.cred \in users
    /\ resp.pk \notin DOMAIN recipes
    /\ \A pk \in DOMAIN recipes : recipes[pk].author # resp.cred
    /\ DOMAIN recipes # {}

-----------------------------------------------------------------------------
\* Properties of requests that run at the same time.

\* The two requests that arrived together have both been answered.
BothDone == calls # <<>> /\ Running = {}

\* C24: once two requests of one caller that rate (or like) one recipe at
\* the same time are both answered, the caller has exactly one Rating (or
\* Like) row of the recipe, and neither request was answered 500.
C24_OneRowAfterRace ==
    BothDone
    => /\ \A i \in DOMAIN calls : calls[i].status # HTTP_500_INTERNAL_SERVER_ERROR
       /\ calls[1].op = "rate_recipe" => RatingCount(ratings, calls[1].cred, calls[1].pk) = 1
       /\ calls[1].op = "like" => LikeCount(likes, calls[1].cred, calls[1].pk) = 1

\* The identities that have the e-mail of the two registrations.
Holders == {u \in users : accounts[u].email = calls[1].arg[1].email}

\* No other identity has a user name the two registrations ask for.
NamesFree ==
    \A u \in users \ Holders : \A i \in DOMAIN calls :
        accounts[u].username # calls[i].arg[1].username

\* C25: once two registrations with one e-mail that ran at the same time
\* are both answered, one identity and no more has the e-mail (the user
\* names being free), and each of the two was answered 201 or 400, never
\* 500.
C25_OneEmailAfterRace ==
    (BothDone /\ calls[1].op = "register")
    => /\ Cardinality(Holders) <= 1
       /\ NamesFree => Cardinality(Holders) = 1
       /\ \A i \in DOMAIN calls : calls[i].status \in {HTTP_201_CREATED, HTTP_400_BAD_REQUEST}

-----------------------------------------------------------------------------
\* Properties of the owner of a recipe.

CreatedForCaller ==
    (resp'.op = "create" /\ resp'.status = HTTP_201_CREATED)
    => /\ resp'.pk \notin DOMAIN recipes
       /\ recipes'[resp'.pk].author = resp'.cred

OwnerKept ==
    \A pk \in DOMAIN recipes \cap DOMAIN recipes' : recipes'[pk].author = recipes[pk].author

\* C26: the owner of a recipe is the caller of the creation, whatever
\* author the payload names, and no update, by any caller and with any
\* payload, changes it.
C26_OwnerImmutable == [][CreatedForCaller /\ OwnerKept]_vars

\* The owner's update that names another identity as author went through,
\* and the recipe is still the owner's.
C26_UpdateNamedAnother ==
    /\ resp.op = "update"
    /\ resp.status = HTTP_200_OK
    /\ resp.arg[1].author # resp.cred
    /\ recipes[resp.pk].author = resp.cred
    /\ recipes[resp.pk].title = resp.arg[1].title

-----------------------------------------------------------------------------
\* Properties of the hidden flag.

\* A hide that succeeds flips the flag of its comment and changes nothing
\* else in the comment table.
HideFlips ==
    (resp'.op = "hide" /\ Success(resp'.status))
    => /\ resp'.pk \in DOMAIN comments
       /\ comments' = [comments EXCEPT ![resp'.pk].hidden = ~comments[resp'.pk].hidden]

\* After two hides in a row on one comment the flag is what it was before
\* the first.
TwoHidesRestore ==
    (streak.kind = "hide" /\ Len(streak.ops) = 2)
    => /\ streak.ops[2] = ~streak.ops[1]
       /\ comments[streak.pk].hidden = streak.ops[1]

\* C27: an authorized hide makes a visible comment hidden and a hidden one
\* visible, so that two in a row restore the flag, and changes neither the
\* content nor the owner nor the recipe of the comment.
C27_HideToggles == []TwoHidesRestore /\ [][HideFlips]_vars

\* Two hides in a row, the second by the recipe's owner, left another
\* identity's comment visible again.
C27_HiddenThenShown ==
    /\ streak.kind = "hide"
    /\ streak.ops = <<FALSE, TRUE>>
    /\ ~comments[streak.pk].hidden
    /\ resp.op = "hide"
    /\ resp.cred = recipes[comments[streak.pk].item].author
    /\ comments[streak.pk].user # resp.cred

\* An edit that succeeds replaces the content of its comment and changes
\* nothing else in the comment table.
EditOnlyContent ==
    (resp'.op = "edit" /\ Success(resp'.status))
    => /\ resp'.pk \in DOMAIN comments
       /\ comments' = [comments EXCEPT ![resp'.pk].content = resp'.arg[1]]

\* C28: a successful edit changes the content of the comment only: the
\* hidden flag, the owner and the recipe stay, so that a hidden comment that
\* is edited stays out of the default listing.
C28_EditKeepsHidden == []HiddenNotListed /\ [][EditOnlyContent]_vars

\* A hidden comment was edited by its owner and is still hidden.
C28_HiddenEdited ==
    /\ resp.op = "edit"
    /\ resp.status = HTTP_200_OK
    /\ comments[resp.pk].hidden
    /\ comments[resp.pk].content = resp.arg[1]
    /\ comments[resp.pk].user = resp.cred

-----------------------------------------------------------------------------
\* Properties of whose rows a request writes.

\* The rows of table B that identity d holds (field names the column of the
\* holder), with their numbers of copies.
Held(B, d, field) ==
    LET rows == {x \in BagToSet(B) : x[field] = d}
    IN  [x \in rows |-> CopiesIn(x, B)]

OthersRowsKept ==
    resp'.op \in {"rate", "like", "unlike", "follow"}
    => \A d \in UserIds \ {resp'.cred} :
           /\ Held(ratings', d, "user") = Held(ratings, d, "user")
           /\ Held(likes', d, "user") = Held(likes, d, "user")
           /\ Held(follows', d, "follower") = Held(follows, d, "follower")

\* C29: a rating, like, unlike, follow or unfollow by one caller leaves the
\* ratings, the likes and the outgoing follows of every other identity as
\* they were.
C29_OnlyOwnRows == [][OthersRowsKept]_vars

\* An identity rated a recipe another identity has rated, liked and follows
\* from, and both ratings are stored.
C29_RatedBesideAnother ==
    /\ resp.op = "rate"
    /\ resp.status = HTTP_201_CREATED
    /\ \E d \in UserIds \ {resp.cred} :
           /\ \E x \in BagToSet(ratings) : x.user = d /\ x.item = resp.pk /\ x.rating # resp.arg[1]
           /\ \E x \in BagToSet(likes) : x.user = d
           /\ \E x \in BagToSet(follows) : x.follower = d
    /\ \E x \in BagToSet(ratings) : x.user = resp.cred /\ x.rating = resp.arg[1]

-----------------------------------------------------------------------------
\* Properties of the images.

\* C30: whatever fails in the write of a recipe and of its image, the
\* image of every stored recipe is a file that is in the storage: no old
\* image is deleted before the new one is written and the row updated.
C30_ImagesExist ==
    \A pk \in DOMAIN recipes :
        recipes[pk].image # None => recipes[pk].image[1] \in media

=============================================================================
